---- MODULE Spec2Model ----
(***************************************************************************)
(* Event-triggered agent orchestration of optics_framework:                *)
(* LLMAgentManager (common/llm_agents/manager.py) as a state machine.      *)
(*                                                                         *)
(* The manager's dictionaries are the state.  register_agent,              *)
(* register_tools_for_session and unregister_session are synchronous and   *)
(* therefore atomic.  on_event is a coroutine: it runs up to               *)
(* asyncio.gather, which starts one _execute_agent task per matched agent  *)
(* name; a task is suspended while it awaits agent.execute and while it    *)
(* awaits an asynchronous capability handler, and the other tasks and the  *)
(* synchronous operations run in between.                                  *)
(*                                                                         *)
(* ErrorHandler (common/error_handler.py) with PopupHandler                *)
(* (common/llm_agents/popup_handler.py) is the popup recovery path: one    *)
(* synchronous handle_error call at a time, which stops only for the       *)
(* inference request and for the capability handler it calls.              *)
(***************************************************************************)
EXTENDS Integers, Sequences, FiniteSets, TLC

VARIABLES
    configs,        \* self.configs: agent name -> LLMAgentConfig
    agents,         \* self.agents: agent name -> client (its tools, its agent)
    trigger_map,    \* self.trigger_map: trigger key -> list of agent names
    session_tools,  \* self.session_tools: session id -> keyword map
    oe_pc,          \* position of on_event: "idle", "gather"
    oe_result,      \* where the last on_event call ended: "none" (running),
                    \* "no_agents", "no_session_id", "no_tools" (the early
                    \* returns), "returned" (after gather), "raised"
    context,        \* the AgentContext built for the event being handled
    tasks,          \* the _execute_agent tasks handed to asyncio.gather
    event,          \* the event on_event is handling
    commands,       \* the calls of event_manager.publish_command made while
                    \* on_event handles the event, in order
    oe_errors,      \* errors the tasks of the last on_event call logged
    disabled_log,   \* the names register_agent logged as "disabled, not
                    \* registering"
    nRegs,          \* number of register_agent calls made so far
    eh_keyword_map, \* ErrorHandler.keyword_map
    eh_call,        \* the last call made to the ErrorHandler: its arguments,
                    \* its position, the calls it made and its result
    ai_keyword_map, \* AIActionHandler.keyword_map
    ai_call,        \* the last call of AIActionHandler.perform_ai_action
    pw,             \* the Playwright driver object: its configuration, its
                    \* driver (the page) and the handles it holds
    ps_call         \* the last call of PlaywrightPageSource.assert_elements

mgr_vars == <<configs, agents, trigger_map, session_tools, oe_pc, oe_result,
              context, tasks, event, commands, oe_errors, disabled_log, nRegs>>
eh_vars == <<eh_keyword_map, eh_call>>
ai_vars == <<ai_keyword_map, ai_call>>
drv_vars == <<pw, ps_call>>
non_mgr_vars ==
    <<eh_keyword_map, eh_call, ai_keyword_map, ai_call, pw, ps_call>>
vars == <<configs, agents, trigger_map, session_tools, oe_pc, oe_result,
          context, tasks, event, commands, oe_errors, disabled_log, nRegs,
          eh_keyword_map, eh_call, ai_keyword_map, ai_call, pw, ps_call>>

-----------------------------------------------------------------------------
(* Bounds of the model *)

MaxRegs == 2

\* the structured arrays of the model hold at most this many records
MaxSteps == 2

\* the error codes of the model are the character strings up to this length
\* and the named codes below
MaxCodeLen == 5

-----------------------------------------------------------------------------
(* Python values *)

\* None where a string may stand, and where an object may stand
None == "None"
Absent == [absent |-> TRUE]

\* dict.get(key, default)
Get(m, k, d) == IF k \in DOMAIN m THEN m[k] ELSE d

\* d[k] = v
Put(m, k, v) == [x \in DOMAIN m \cup {k} |-> IF x = k THEN v ELSE m[x]]

\* d.pop(k)
Pop(m, k) == [x \in DOMAIN m \ {k} |-> m[x]]

EmptyDict == <<>>

\* not x, for the values a session id takes (None and "" are falsy)
Falsy(x) == x = None \/ x = ""

\* name.startswith('_')
StartsWithUnderscore(name) == name \in {"_priv"}

-----------------------------------------------------------------------------
(* The inputs *)

AgentNames == {"agent1", "agent2"}
Sessions == {"s1", "s2"}
EntityTypes == {"Keyword"}
Statuses == {"fail", "pass"}
Triggers == {"Keyword_fail", "Module_fail"}

\* LLMAgentConfig: the fields the manager reads
Configs == [enabled : BOOLEAN, trigger : Triggers]

\* Event: entity_type, status and the extra map
Extras == {EmptyDict} \cup {("session_id" :> s) : s \in Sessions \cup {""}}
Events == [entity_type : EntityTypes, status : Statuses, extra : Extras]

\* Capability handlers; iscoroutinefunction(h) holds of the asynchronous ones
AsyncHandlers == {"h_swipe"}
IsCoroutineFunction(h) == h \in AsyncHandlers

\* A keyword map is a Python dict: an insertion-ordered list of (name, handler)
KeywordMap1 ==
    << [name |-> "tap", handler |-> "h_tap"],
       [name |-> "swipe", handler |-> "h_swipe"],
       [name |-> "press", handler |-> "h_press"],
       [name |-> "back", handler |-> "h_back"],
       [name |-> "_priv", handler |-> "h_priv"],
       [name |-> "pause_execution", handler |-> "h_pause"] >>

\* The registrations the runner makes: session id and keyword map
Registrations == {<<"s1", KeywordMap1>>}

\* The same with sessions that have no capabilities: an empty keyword map
SessionRegistrations ==
    Registrations \cup {<<"s1", EmptyDict>>}

\* A second keyword map: "tap" with another handler, one capability of its
\* own, and a private one
KeywordMap2 ==
    << [name |-> "tap", handler |-> "h_tap2"],
       [name |-> "scroll", handler |-> "h_scroll"],
       [name |-> "_priv", handler |-> "h_priv2"] >>

\* Registrations that replace the map of a session, for two sessions
ClientRegistrations ==
    {<<"s1", KeywordMap1>>, <<"s1", KeywordMap2>>, <<"s2", KeywordMap2>>}

Keys(km) == {km[i].name : i \in 1..Len(km)}
Lookup(km, n) == (CHOOSE i \in 1..Len(km) : km[i].name = n)
Handler(km, n) == km[Lookup(km, n)].handler

\* AgentAction: tool_name and the parameters map
Act(tool, params) == [tool_name |-> tool, parameters |-> params]
ActTap == Act("tap", ("args" :> <<"ok_button">>))
ActSwipe == Act("swipe", ("kwargs" :> ("direction" :> "up")))
ActPress == Act("press", EmptyDict)
ActBack == Act("back", EmptyDict)
ActGhost == Act("ghost", EmptyDict)
ActPauseReason == Act("pause_execution", ("reason" :> "popup"))
ActPause == Act("pause_execution", EmptyDict)
ActResume == Act("resume_execution", EmptyDict)

\* The action lists an agent's response may carry
ActionLists ==
    { <<>>,
      <<ActTap, ActSwipe, ActPress>>,
      <<ActBack, ActGhost, ActPauseReason>>,
      <<ActResume, ActPause, ActPause>> }

\* What awaiting agent.execute(context) can produce: an exception (a timeout
\* is one) or an AgentResponse
ExecuteOutcomes ==
    {[raised |-> TRUE, actions |-> <<>>, requires_human_input |-> FALSE]}
    \cup [raised : {FALSE}, actions : ActionLists,
          requires_human_input : {FALSE}]
    \cup [raised : {FALSE}, actions : {<<ActBack, ActGhost, ActPauseReason>>},
          requires_human_input : {TRUE}]

\* One answer with actions, and the exception
FewExecuteOutcomes ==
    {[raised |-> TRUE, actions |-> <<>>, requires_human_input |-> FALSE],
     [raised |-> FALSE, actions |-> <<ActTap, ActSwipe, ActPause>>,
      requires_human_input |-> FALSE]}

\* An answer that names a private entry of the keyword map among its actions
ActPriv == Act("_priv", EmptyDict)
PrivateExecuteOutcomes ==
    {[raised |-> FALSE,
      actions |-> <<ActPriv, ActSwipe, ActGhost, ActPause>>,
      requires_human_input |-> FALSE]}

-----------------------------------------------------------------------------
(* Agent registry and trigger map *)

\* PydanticAIClient.__init__: no tools yet, and no agent until tools are
\* registered
PydanticAIClient(config) ==
    [config |-> config, agent |-> FALSE, tools |-> EmptyDict]

\* PydanticAIClient.register_tools: stores the public entries (over the ones
\* stored before) and creates the agent
register_tools(client, tools) ==
    [client EXCEPT
        !.tools = [n \in DOMAIN client.tools \cup
                          {k \in DOMAIN tools : ~StartsWithUnderscore(k)} |->
                      IF n \in DOMAIN tools THEN tools[n] ELSE client.tools[n]],
        !.agent = TRUE]

\* register_agent without its check of config.enabled
register_agent_unchecked(name, config) ==
    /\ nRegs < MaxRegs
    /\ nRegs' = nRegs + 1
    /\ disabled_log' = IF config.enabled THEN disabled_log
                       ELSE Append(disabled_log, name)
    /\ configs' = Put(configs, name, config)
    /\ agents' = Put(agents, name, PydanticAIClient(config))
    /\ trigger_map' =
           Put(trigger_map, config.trigger,
               Append(Get(trigger_map, config.trigger, <<>>), name))
    /\ UNCHANGED <<session_tools, oe_pc, oe_result, context, tasks, event,
                   commands, oe_errors>>

\* register_agent with the name put in front of the trigger's list
register_agent_prepends(name, config) ==
    /\ nRegs < MaxRegs
    /\ nRegs' = nRegs + 1
    /\ IF ~config.enabled
       THEN /\ disabled_log' = Append(disabled_log, name)
            /\ UNCHANGED <<configs, agents, trigger_map>>
       ELSE /\ UNCHANGED disabled_log
            /\ configs' = Put(configs, name, config)
            /\ agents' = Put(agents, name, PydanticAIClient(config))
            /\ trigger_map' =
                   Put(trigger_map, config.trigger,
                       <<name>> \o Get(trigger_map, config.trigger, <<>>))
    /\ UNCHANGED <<session_tools, oe_pc, oe_result, context, tasks, event,
                   commands, oe_errors>>

register_agent(name, config) ==
    /\ nRegs < MaxRegs
    /\ nRegs' = nRegs + 1
    /\ IF ~config.enabled
       THEN /\ disabled_log' = Append(disabled_log, name)
            /\ UNCHANGED <<configs, agents, trigger_map>>
       ELSE /\ UNCHANGED disabled_log
            /\ configs' = Put(configs, name, config)
            /\ agents' = Put(agents, name, PydanticAIClient(config))
            /\ trigger_map' =
                   Put(trigger_map, config.trigger,
                       Append(Get(trigger_map, config.trigger, <<>>), name))
    /\ UNCHANGED <<session_tools, oe_pc, oe_result, context, tasks, event,
                   commands, oe_errors>>

-----------------------------------------------------------------------------
(* Session capability registry *)

\* the dict comprehension of register_tools_for_session: the entries whose
\* name does not start with '_'
PublicTools(keyword_map) ==
    [n \in {k \in Keys(keyword_map) : ~StartsWithUnderscore(k)} |->
        Handler(keyword_map, n)]

\* register_tools_for_session with setdefault in place of the assignment:
\* the first map of a session stays
register_tools_for_session_setdefault(session_id, keyword_map) ==
    /\ session_tools' = IF session_id \in DOMAIN session_tools
                        THEN session_tools
                        ELSE Put(session_tools, session_id, keyword_map)
    /\ agents' = [a \in DOMAIN agents |->
                     register_tools(agents[a], PublicTools(keyword_map))]
    /\ UNCHANGED <<configs, trigger_map, oe_pc, oe_result, context, tasks,
                   event, commands, oe_errors,
                   disabled_log, nRegs>>

register_tools_for_session(session_id, keyword_map) ==
    /\ session_tools' = Put(session_tools, session_id, keyword_map)
    /\ agents' = [a \in DOMAIN agents |->
                     register_tools(agents[a], PublicTools(keyword_map))]
    /\ UNCHANGED <<configs, trigger_map, oe_pc, oe_result, context, tasks,
                   event, commands, oe_errors,
                   disabled_log, nRegs>>

\* self.session_tools.pop(session_id) without the test that the session is
\* registered: a KeyError for a session that is not
KeyError == [raised |-> "KeyError"]
UnregisteredUnchecked(registry, session_id) ==
    IF registry # KeyError /\ session_id \in DOMAIN registry
    THEN Pop(registry, session_id)
    ELSE KeyError

\* the registry after unregister_session(session_id)
Unregistered(registry, session_id) ==
    IF session_id \in DOMAIN registry
    THEN Pop(registry, session_id)
    ELSE registry

unregister_session(session_id) ==
    /\ session_tools' = Unregistered(session_tools, session_id)
    /\ UNCHANGED <<configs, agents, trigger_map, oe_pc, oe_result, context,
                   tasks, event, commands, oe_errors,
                   disabled_log, nRegs>>

\* Tool descriptors
Tool(name, description, parameters) ==
    [name |-> name, description |-> description, parameters |-> parameters]

\* one descriptor for every entry of the keyword map, the private ones too
AllDescriptors(km) ==
    [q \in 1..Len(km) |-> Tool(km[q].name, "doc", EmptyDict)]

RECURSIVE PublicDescriptors(_)
PublicDescriptors(km) ==
    IF km = <<>> THEN <<>>
    ELSE LET rest == PublicDescriptors(Tail(km))
         IN IF StartsWithUnderscore(Head(km).name)
            THEN rest
            ELSE <<Tool(Head(km).name, "doc", EmptyDict)>> \o rest

\* _get_available_tools without the two reserved tools
get_available_tools_no_reserved(session_id) ==
    IF session_id \notin DOMAIN session_tools
    THEN <<>>
    ELSE PublicDescriptors(session_tools[session_id])

\* _get_available_tools without the test that the session is registered
get_available_tools_reserved_always(session_id) ==
    (IF session_id \notin DOMAIN session_tools
     THEN <<>>
     ELSE PublicDescriptors(session_tools[session_id]))
    \o <<Tool("pause_execution", "Pause the test execution",
              ("reason" :> "str")),
         Tool("resume_execution", "Resume the test execution",
              EmptyDict)>>

get_available_tools(session_id) ==
    IF session_id \notin DOMAIN session_tools
    THEN <<>>
    ELSE PublicDescriptors(session_tools[session_id])
         \o <<Tool("pause_execution", "Pause the test execution",
                   ("reason" :> "str")),
              Tool("resume_execution", "Resume the test execution",
                   EmptyDict)>>

-----------------------------------------------------------------------------
(* on_event and the fan-out *)

\* the fields of AgentContext that the manager and the tasks read
AgentContext(trigger, session_id, tools) ==
    [event_type |-> trigger, session_id |-> session_id,
     available_tools |-> tools]

\* one coroutine _execute_agent(name, context), not yet started
NewTask(name) ==
    [agent_name |-> name, pc |-> "start", outcome |-> "", response |-> Absent,
     tools |-> <<>>, idx |-> 0, effects |-> <<>>]

\* a trigger key made of the entity type alone: every status matches "fail"
TriggerKeyIgnoresStatus(e) == e.entity_type \o "_" \o "fail"

TriggerKey(e) == e.entity_type \o "_" \o e.status

\* on_event without its early returns for a missing session id and for a
\* session without tools
on_event_unchecked(e) ==
    /\ oe_pc = "idle"
    /\ UNCHANGED commands
    /\ LET trigger == TriggerKey(e)
           agent_names == Get(trigger_map, trigger, <<>>)
           session_id == Get(e.extra, "session_id", None)
           tools == get_available_tools(session_id)
       IN IF agent_names = <<>>
          THEN /\ oe_result' = "no_agents"
               /\ context' = Absent
               /\ tasks' = <<>>
               /\ UNCHANGED <<oe_pc, event>>
          ELSE /\ oe_result' = "none"
               /\ event' = e
               /\ context' = AgentContext(trigger, session_id, tools)
               /\ tasks' = [i \in 1..Len(agent_names) |->
                               NewTask(agent_names[i])]
               /\ oe_pc' = "gather"
    /\ oe_errors' = 0
    /\ UNCHANGED <<configs, agents, trigger_map, session_tools, disabled_log,
                   nRegs>>

\* on_event without its early return for a session without tools
on_event_ignores_tools(e) ==
    /\ oe_pc = "idle"
    /\ UNCHANGED commands
    /\ LET trigger == TriggerKey(e)
           agent_names == Get(trigger_map, trigger, <<>>)
           session_id == Get(e.extra, "session_id", None)
           tools == get_available_tools(session_id)
       IN IF agent_names = <<>> \/ Falsy(session_id)
          THEN /\ oe_result' = IF agent_names = <<>> THEN "no_agents"
                               ELSE "no_session_id"
               /\ context' = Absent
               /\ tasks' = <<>>
               /\ UNCHANGED <<oe_pc, event>>
          ELSE /\ oe_result' = "none"
               /\ event' = e
               /\ context' = AgentContext(trigger, session_id, tools)
               /\ tasks' = [i \in 1..Len(agent_names) |->
                               NewTask(agent_names[i])]
               /\ oe_pc' = "gather"
    /\ oe_errors' = 0
    /\ UNCHANGED <<configs, agents, trigger_map, session_tools, disabled_log,
                   nRegs>>

on_event(e) ==
    /\ oe_pc = "idle"
    /\ UNCHANGED commands
    /\ LET trigger == TriggerKey(e)
           agent_names == Get(trigger_map, trigger, <<>>)
           session_id == Get(e.extra, "session_id", None)
           tools == get_available_tools(session_id)
       IN IF agent_names = <<>> \/ Falsy(session_id) \/ tools = <<>>
          THEN /\ oe_result' = IF agent_names = <<>> THEN "no_agents"
                               ELSE IF Falsy(session_id) THEN "no_session_id"
                               ELSE "no_tools"
               /\ context' = Absent
               /\ tasks' = <<>>
               /\ UNCHANGED <<oe_pc, event>>
          ELSE /\ oe_result' = "none"
               /\ event' = e
               /\ context' = AgentContext(trigger, session_id, tools)
               /\ tasks' = [i \in 1..Len(agent_names) |->
                               NewTask(agent_names[i])]
               /\ oe_pc' = "gather"
    /\ oe_errors' = 0
    /\ UNCHANGED <<configs, agents, trigger_map, session_tools, disabled_log,
                   nRegs>>

\* the calls of internal_logger.error the tasks made: one by each task that
\* caught an exception of its turn, one for every handler call that raised
RECURSIVE ErrorsLogged(_)
ErrorsLogged(ts) ==
    IF ts = <<>> THEN 0
    ELSE (IF Head(ts).outcome = "error" THEN 1 ELSE 0)
         + Cardinality({p \in 1..Len(Head(ts).effects) :
                           /\ Head(ts).effects[p].kind = "end"
                           /\ Head(ts).effects[p].what = "raise"})
         + ErrorsLogged(Tail(ts))

\* a wait that ends with the first task that finishes
gather_return_first_completed ==
    /\ oe_pc = "gather"
    /\ \E i \in 1..Len(tasks) : tasks[i].pc = "done"
    /\ oe_pc' = "idle"
    /\ oe_result' = IF \E i \in 1..Len(tasks) : tasks[i].outcome = "propagated"
                    THEN "raised" ELSE "returned"
    /\ context' = Absent
    /\ tasks' = <<>>
    /\ event' = Absent
    /\ commands' = <<>>
    /\ oe_errors' = ErrorsLogged(tasks)
    /\ UNCHANGED <<configs, agents, trigger_map, session_tools, disabled_log,
                   nRegs>>

\* await asyncio.gather(*tasks): returns when every task has finished, and
\* re-raises an exception that left a task
gather_return ==
    /\ oe_pc = "gather"
    /\ \A i \in 1..Len(tasks) : tasks[i].pc = "done"
    /\ oe_pc' = "idle"
    /\ oe_result' = IF \E i \in 1..Len(tasks) : tasks[i].outcome = "propagated"
                    THEN "raised" ELSE "returned"
    /\ context' = Absent
    /\ tasks' = <<>>
    /\ event' = Absent
    /\ commands' = <<>>
    /\ oe_errors' = ErrorsLogged(tasks)
    /\ UNCHANGED <<configs, agents, trigger_map, session_tools, disabled_log,
                   nRegs>>

Finish(t, outcome) == [t EXCEPT !.pc = "done", !.outcome = outcome]

\* _execute_agent up to its await of agent.execute
execute_agent_call(i) ==
    /\ oe_pc = "gather"
    /\ i \in 1..Len(tasks)
    /\ tasks[i].pc = "start"
    /\ tasks' = [tasks EXCEPT ![i] =
                    IF tasks[i].agent_name \notin DOMAIN agents
                    THEN Finish(@, "no_agent")
                    ELSE [@ EXCEPT !.pc = "exec"]]
    /\ UNCHANGED <<configs, agents, trigger_map, session_tools, oe_pc,
                   oe_result, context, event, commands, oe_errors,
                   disabled_log, nRegs>>

\* _execute_agent without its try/except: the exception leaves the task
execute_agent_propagates(t) == Finish(t, "propagated")

\* except Exception of _execute_agent: logged, the task ends normally
execute_agent_except(t) == Finish(t, "error")

\* _process_actions without its check of the session: the subscript
\* session_tools[session_id] raises KeyError, which _execute_agent catches
process_actions_begin_unchecked(t, session_id, actions) ==
    IF actions = <<>> THEN Finish(t, "no_actions")
    ELSE IF session_id \notin DOMAIN session_tools
    THEN execute_agent_except(t)
    ELSE [t EXCEPT !.pc = "loop", !.idx = 1,
                   !.tools = session_tools[session_id]]

\* _process_actions up to its loop
process_actions_begin(t, session_id, actions) ==
    IF actions = <<>> THEN Finish(t, "no_actions")
    ELSE IF session_id \notin DOMAIN session_tools
    THEN Finish(t, "no_session")
    ELSE [t EXCEPT !.pc = "loop", !.idx = 1,
                   !.tools = session_tools[session_id]]

\* _execute_agent without its check of requires_human_input
handle_response_ignores_human(t, r) ==
    IF r.raised THEN execute_agent_except(t)
    ELSE process_actions_begin([t EXCEPT !.response = r],
                               context.session_id, r.actions)

\* _execute_agent from the return of agent.execute
handle_response(t, r) ==
    IF r.raised THEN execute_agent_except(t)
    ELSE LET t1 == [t EXCEPT !.response = r]
         IN IF r.requires_human_input THEN Finish(t1, "human")
            ELSE process_actions_begin(t1, context.session_id, r.actions)

\* a fan-out that fails fast: the exception of one task cancels the tasks
\* that have not finished
after_execute_fail_fast(ts, i, r) ==
    IF r.raised
    THEN [k \in DOMAIN ts |->
             IF k = i THEN execute_agent_except(ts[k])
             ELSE IF ts[k].pc # "done" THEN Finish(ts[k], "cancelled")
             ELSE ts[k]]
    ELSE [ts EXCEPT ![i] = handle_response(@, r)]

\* the tasks of one gather when task i's await of agent.execute ends with r:
\* task i goes on alone, whatever r is; its siblings are left as they are
after_execute(ts, i, r) == [ts EXCEPT ![i] = handle_response(@, r)]

execute_agent_resume(i, r) ==
    /\ oe_pc = "gather"
    /\ i \in 1..Len(tasks)
    /\ tasks[i].pc = "exec"
    /\ tasks' = after_execute(tasks, i, r)
    /\ UNCHANGED <<configs, agents, trigger_map, session_tools, oe_pc,
                   oe_result, context, event, commands, oe_errors,
                   disabled_log, nRegs>>

-----------------------------------------------------------------------------
(* PydanticAIClient.execute: the agent turn of the client the manager makes *)

\* The message of a response is a list of strings: str.format of its parts
\* What awaiting self.agent.run(query) can produce: an exception (of the
\* transport, a timeout, a non-success response, model output the library
\* cannot parse) or the model's output
RunErrors == {"ReadTimeout", "HTTPStatusError", "UnexpectedModelBehavior"}
\* complete output, and output that stops in the middle of a structured block
RunMessages == {"done", "truncated_block"}
RunOutcomes ==
    [raised : {TRUE}, error : RunErrors]
    \cup [raised : {FALSE}, message : RunMessages]

AgentResponse(message, actions, requires_human_input) ==
    [raised |-> FALSE, message |-> message, actions |-> actions,
     requires_human_input |-> requires_human_input]

\* execute that takes an action out of output that stops in the middle of a
\* structured block
execute_salvages_truncated(client, run) ==
    IF ~client.config.enabled
    THEN AgentResponse(<<"LLM Agent is disabled">>, <<>>, FALSE)
    ELSE IF ~client.agent
    THEN AgentResponse(<<"Agent not properly initialized with tools">>, <<>>,
                       TRUE)
    ELSE IF run.raised
    THEN AgentResponse(<<"Error executing LLM agent", run.error>>, <<>>, TRUE)
    ELSE AgentResponse(<<run.message>>,
                       IF run.message = "truncated_block" THEN <<ActTap>>
                       ELSE <<>>, FALSE)

\* execute without its try/except: the exception of agent.run leaves execute
execute_propagates(client, run) ==
    IF ~client.config.enabled
    THEN AgentResponse(<<"LLM Agent is disabled">>, <<>>, FALSE)
    ELSE IF ~client.agent
    THEN AgentResponse(<<"Agent not properly initialized with tools">>, <<>>,
                       TRUE)
    ELSE IF run.raised
    THEN [raised |-> TRUE, message |-> <<run.error>>, actions |-> <<>>,
          requires_human_input |-> FALSE]
    ELSE AgentResponse(<<run.message>>, <<>>, FALSE)

\* PydanticAIClient.execute: the response it returns when agent.run ends
\* with run
execute(client, run) ==
    IF ~client.config.enabled
    THEN AgentResponse(<<"LLM Agent is disabled">>, <<>>, FALSE)
    ELSE IF ~client.agent
    THEN AgentResponse(<<"Agent not properly initialized with tools">>, <<>>,
                       TRUE)
    ELSE IF run.raised
    THEN AgentResponse(<<"Error executing LLM agent", run.error>>, <<>>, TRUE)
    ELSE AgentResponse(<<run.message>>, <<>>, FALSE)

\* the await of agent.execute in task i ends: agent.run ended with run, or
\* was not called
agent_execute_return(i, run) ==
    /\ oe_pc = "gather"
    /\ i \in 1..Len(tasks)
    /\ tasks[i].pc = "exec"
    /\ execute_agent_resume(i, execute(agents[tasks[i].agent_name], run))

-----------------------------------------------------------------------------
(* The action dispatcher: the loop of _process_actions *)

Reserved(tool_name) == tool_name \in {"pause_execution", "resume_execution"}

CurrentAction(t) == t.response.actions[t.idx]

\* an entry of a task's record of its effects
Effect(kind, idx, what, data) ==
    [kind |-> kind, idx |-> idx, what |-> what, data |-> data]

Log(t, entry) == [t EXCEPT !.effects = Append(@, entry)]

\* a loop that drops an action equal to the one before it
AdvanceDeduplicating(t) ==
    LET actions == t.response.actions
        n == Len(actions)
        next == IF t.idx < n /\ actions[t.idx + 1] = actions[t.idx]
                THEN t.idx + 2 ELSE t.idx + 1
    IN IF next > n
       THEN Finish(t, "processed")
       ELSE [t EXCEPT !.pc = "loop", !.idx = next]

\* the next iteration of "for action in actions", or the end of the loop
Advance(t) ==
    IF t.idx = Len(t.response.actions)
    THEN Finish(t, "processed")
    ELSE [t EXCEPT !.pc = "loop", !.idx = @ + 1]

\* event_manager.publish_command(type, session_id, params): the command is
\* put on the command channel
Command(type, session_id, params) ==
    [type |-> type, session_id |-> session_id, params |-> params]

\* a PAUSE that ignores parameters.reason
ControlCommandDefaultReason(action, session_id) ==
    IF action.tool_name = "pause_execution"
    THEN Command("PAUSE", session_id, "Paused by LLM agent")
    ELSE Command("RESUME", session_id, None)

\* the command an action with a reserved tool name publishes
ControlCommand(action, session_id) ==
    IF action.tool_name = "pause_execution"
    THEN Command("PAUSE", session_id,
                 Get(action.parameters, "reason", "Paused by LLM agent"))
    ELSE Command("RESUME", session_id, None)

\* a dispatcher that publishes a command only when the same command is not
\* already among the ones published for the event
dispatch_control_once(i) ==
    /\ oe_pc = "gather"
    /\ i \in 1..Len(tasks)
    /\ tasks[i].pc = "loop"
    /\ Reserved(CurrentAction(tasks[i]).tool_name)
    /\ LET t == tasks[i]
           c == ControlCommand(CurrentAction(t), context.session_id)
           seen == \E q \in 1..Len(commands) : commands[q] = c
       IN /\ commands' = IF seen THEN commands ELSE Append(commands, c)
          /\ tasks' = [tasks EXCEPT ![i] =
                          IF seen THEN Advance(t)
                          ELSE Advance(Log(t, Effect("publish", t.idx, c.type,
                                                     c)))]
    /\ UNCHANGED <<configs, agents, trigger_map, session_tools, oe_pc,
                   oe_result, context, event, oe_errors,
                   disabled_log, nRegs>>

\* the branches "pause_execution" and "resume_execution", each ending in
\* continue
dispatch_control(i) ==
    /\ oe_pc = "gather"
    /\ i \in 1..Len(tasks)
    /\ tasks[i].pc = "loop"
    /\ Reserved(CurrentAction(tasks[i]).tool_name)
    /\ LET t == tasks[i]
           c == ControlCommand(CurrentAction(t), context.session_id)
       IN /\ commands' = Append(commands, c)
          /\ tasks' = [tasks EXCEPT ![i] =
                          Advance(Log(t, Effect("publish", t.idx, c.type, c)))]
    /\ UNCHANGED <<configs, agents, trigger_map, session_tools, oe_pc,
                   oe_result, context, event, oe_errors,
                   disabled_log, nRegs>>

\* "if tool_name in tools", for the tools read when the loop started
Dispatchable(t) ==
    /\ ~Reserved(CurrentAction(t).tool_name)
    /\ CurrentAction(t).tool_name \in Keys(t.tools)

\* the call tools[tool_name](*args, **kwargs)
Invocation(t) ==
    LET action == CurrentAction(t)
    IN Effect("invoke", t.idx, Handler(t.tools, action.tool_name),
              [args |-> Get(action.parameters, "args", <<>>),
               kwargs |-> Get(action.parameters, "kwargs", EmptyDict)])

\* a call without try/except: the exception of the handler leaves the loop
\* and is caught by _execute_agent
after_handler_aborts(t, outcome) ==
    IF outcome = "raise"
    THEN execute_agent_except(Log(t, Effect("end", t.idx, outcome, Absent)))
    ELSE Advance(Log(t, Effect("end", t.idx, outcome, Absent)))

\* after the call: the handler returned, or raised and "except Exception"
\* logged it; the loop goes on in both cases
after_handler(t, outcome) ==
    Advance(Log(t, Effect("end", t.idx, outcome, Absent)))

\* how a call of handler h can end
HandlerOutcomes(h) ==
    IF h \in {"h_swipe", "h_back"} THEN {"return", "raise"} ELSE {"return"}

\* a synchronous handler is called and ends within one step
dispatch_sync(i, outcome) ==
    /\ oe_pc = "gather"
    /\ i \in 1..Len(tasks)
    /\ tasks[i].pc = "loop"
    /\ Dispatchable(tasks[i])
    /\ ~IsCoroutineFunction(Handler(tasks[i].tools,
                                    CurrentAction(tasks[i]).tool_name))
    /\ outcome \in HandlerOutcomes(Handler(tasks[i].tools,
                                            CurrentAction(tasks[i]).tool_name))
    /\ tasks' = [tasks EXCEPT ![i] =
                    after_handler(Log(@, Invocation(@)), outcome)]
    /\ UNCHANGED <<configs, agents, trigger_map, session_tools, oe_pc,
                   oe_result, context, event, commands, oe_errors,
                   disabled_log, nRegs>>

\* an asynchronous handler is called and awaited
dispatch_async_call(i) ==
    /\ oe_pc = "gather"
    /\ i \in 1..Len(tasks)
    /\ tasks[i].pc = "loop"
    /\ Dispatchable(tasks[i])
    /\ IsCoroutineFunction(Handler(tasks[i].tools,
                                   CurrentAction(tasks[i]).tool_name))
    /\ tasks' = [tasks EXCEPT ![i] =
                    [Log(@, Invocation(@)) EXCEPT !.pc = "await"]]
    /\ UNCHANGED <<configs, agents, trigger_map, session_tools, oe_pc,
                   oe_result, context, event, commands, oe_errors,
                   disabled_log, nRegs>>

\* the awaited handler ends
dispatch_async_resume(i, outcome) ==
    /\ oe_pc = "gather"
    /\ i \in 1..Len(tasks)
    /\ tasks[i].pc = "await"
    /\ outcome \in HandlerOutcomes(Handler(tasks[i].tools,
                                            CurrentAction(tasks[i]).tool_name))
    /\ tasks' = [tasks EXCEPT ![i] = after_handler(@, outcome)]
    /\ UNCHANGED <<configs, agents, trigger_map, session_tools, oe_pc,
                   oe_result, context, event, commands, oe_errors,
                   disabled_log, nRegs>>

\* a lookup tools[tool_name] without "if tool_name in tools": KeyError,
\* which _execute_agent catches
skip_unknown_raises(t) == execute_agent_except(t)

\* the else branch: "Tool ... not found" is logged, nothing is called
skip_unknown(t) == Advance(t)

dispatch_unknown(i) ==
    /\ oe_pc = "gather"
    /\ i \in 1..Len(tasks)
    /\ tasks[i].pc = "loop"
    /\ ~Reserved(CurrentAction(tasks[i]).tool_name)
    /\ ~Dispatchable(tasks[i])
    /\ tasks' = [tasks EXCEPT ![i] = skip_unknown(@)]
    /\ UNCHANGED <<configs, agents, trigger_map, session_tools, oe_pc,
                   oe_result, context, event, commands, oe_errors,
                   disabled_log, nRegs>>

-----------------------------------------------------------------------------
(* Error codes: Python strings, as sequences of characters *)

Chars == {"E", "X", "0", "1", "2", "4"}

E0201_modal_blocking ==
    <<"E", "0", "2", "0", "1", "_", "m", "o", "d", "a", "l", "_",
      "b", "l", "o", "c", "k", "i", "n", "g">>
X0201_popup == <<"X", "0", "2", "0", "1", "_", "p", "o", "p", "u", "p">>
E0401_keyword == <<"E", "0", "4", "0", "1", "_", "k", "e", "y">>
X0401_keyword == <<"X", "0", "4", "0", "1", "_", "k", "e", "y">>
E0101_driver == <<"E", "0", "1", "0", "1", "_", "d", "r", "v">>
X0101_driver == <<"X", "0", "1", "0", "1", "_", "d", "r", "v">>
E9999_unknown ==
    <<"E", "9", "9", "9", "9", "_", "u", "n", "k", "n", "o", "w", "n">>

NamedCodes ==
    {E0201_modal_blocking, X0201_popup, E0401_keyword, X0401_keyword,
     E0101_driver, X0101_driver, E9999_unknown}

ErrorCodes == UNION {[1..n -> Chars] : n \in 0..MaxCodeLen} \cup NamedCodes

\* s.startswith(prefix)
StartsWith(s, prefix) ==
    Len(s) >= Len(prefix) /\ SubSeq(s, 1, Len(prefix)) = prefix

\* ErrorHandler.classify_failure with the branch for E0101 also taking X0101
classify_failure_x0101(error_code) ==
    IF \/ StartsWith(error_code, <<"E", "0", "2", "0", "1">>)
       \/ StartsWith(error_code, <<"X", "0", "2", "0", "1">>)
    THEN "screen_popup"
    ELSE IF \/ StartsWith(error_code, <<"E", "0", "4", "0", "1">>)
            \/ StartsWith(error_code, <<"X", "0", "4", "0", "1">>)
    THEN "keyword_execution"
    ELSE IF \/ StartsWith(error_code, <<"E", "0", "1", "0", "1">>)
            \/ StartsWith(error_code, <<"X", "0", "1", "0", "1">>)
    THEN "driver_issue"
    ELSE "general_error"

\* ErrorHandler.classify_failure
classify_failure(error_code) ==
    IF \/ StartsWith(error_code, <<"E", "0", "2", "0", "1">>)
       \/ StartsWith(error_code, <<"X", "0", "2", "0", "1">>)
    THEN "screen_popup"
    ELSE IF \/ StartsWith(error_code, <<"E", "0", "4", "0", "1">>)
            \/ StartsWith(error_code, <<"X", "0", "4", "0", "1">>)
    THEN "keyword_execution"
    ELSE IF StartsWith(error_code, <<"E", "0", "1", "0", "1">>)
    THEN "driver_issue"
    ELSE "general_error"

-----------------------------------------------------------------------------
(* The popup recovery path: its inputs *)

\* context_info: None or a dict that may hold page_source and screenshot_path
ContextInfos ==
    { Absent,
      EmptyDict,
      ("screenshot_path" :> "shot.png"),
      ("page_source" :> "<hierarchy/>"),
      ("page_source" :> "" @@ "screenshot_path" :> "shot.png"),
      ("page_source" :> "<hierarchy/>" @@ "screenshot_path" :> "shot.png") }

\* the keyword maps an ErrorHandler is given
KeywordMapEH ==
    << [name |-> "press_element", handler |-> "h_press_element"],
       [name |-> "enter_text", handler |-> "h_enter_text"] >>
KeywordMapsEH == {EmptyDict, KeywordMapEH}

\* JSON values as json.loads returns them
JNull == [json |-> "null"]
JStr(s) == [json |-> "str", s |-> s]
JDict(d) == [json |-> "dict", v |-> d]
JList(q) == [json |-> "list", items |-> q]

\* one suggestion of the model: a dict with "action" and "target"
Step(action, target) == JDict(("action" :> action) @@ ("target" :> target))
PressContinue ==
    Step("press_element", JDict(("element_name" :> "Continue")))
PressContinueCapitalKey ==
    Step("press_element", JDict(("Element_Name" :> "Continue")))
PressByText == Step("press_element", JDict(("text" :> "OK")))
PressString == Step("press_element", JStr("Continue"))
EnterName == Step("enter_text", JDict(("element_name" :> "name_field")))
SwipeUp == Step("swipe", JDict(("element_name" :> "up")))
NoAction == JDict(("target" :> JDict(("element_name" :> "Continue"))))
NoTarget == JDict(("action" :> "press_element"))

\* what the model's reply parses to
Suggestions ==
    { JList(<<>>),
      JList(<<PressContinue>>),
      JList(<<SwipeUp, PressContinue, EnterName>>),
      JList(<<PressContinueCapitalKey>>),
      JList(<<PressByText, EnterName>>),
      JList(<<PressString>>),
      JList(<<NoAction, SwipeUp>>),
      JList(<<NoTarget>>),
      JList(<<JStr("press_element")>>),
      JNull }

\* what query_ollama produces: an exception (no connection, a timeout, a
\* status that is not ok), or the text of the response, which
\* extract_json_from_llm_response parses or fails to parse
Unparsable == [json |-> "invalid"]
Replies ==
    {[kind |-> "raise", json |-> Unparsable]}
    \cup [kind : {"text"}, json : Suggestions \cup {Unparsable}]

-----------------------------------------------------------------------------
(* ErrorHandler.handle_error and PopupHandler.handle_popup *)

\* truthiness of a dict or None, and of a string or None
TruthyDict(d) == d # Absent /\ DOMAIN d # {}
TruthyStr(x) == ~Falsy(x)

\* no call made, and a call about to be made with this error code
NoCall == [op |-> "none", pc |-> "done"]
Pending(error_code) ==
    [op |-> "pending", pc |-> "start", error_code |-> error_code]

\* the frame of handle_error: its locals, the requests sent to the model,
\* the keywords called, the errors logged, the value returned
Frame(failure_type, context_info) ==
    [op |-> "handle_error", pc |-> "run", failure_type |-> failure_type,
     context_info |-> context_info, inference_calls |-> 0,
     reply |-> Absent, suggestions |-> Absent, step |-> 0, invoked |-> <<>>,
     keyword_outcome |-> "none", errors |-> 0, result |-> "none"]

\* return result
Return(c, result) == [c EXCEPT !.pc = "done", !.result = result]

\* an exception of the try block that is left to the caller
handle_error_except_propagates(c) == Return(c, "raised")

\* the except clause of handle_error, and the return False after it
handle_error_except(c) ==
    Return([c EXCEPT !.errors = @ + 1], "False")

\* the condition of the recovery path without the test of the failure class
recovery_for_any_failure(failure_type, page_source) == TruthyStr(page_source)

\* failure_type == "screen_popup" and page_source
recovery_triggered(failure_type, page_source) ==
    failure_type = "screen_popup" /\ TruthyStr(page_source)

\* PopupHandler.handle_popup up to the request sent by query_ollama
handle_popup(c, xml_string, screenshot_path) ==
    IF Falsy(xml_string) THEN handle_error_except(c)
    ELSE IF Falsy(screenshot_path) THEN handle_error_except(c)
    ELSE [c EXCEPT !.pc = "infer", !.inference_calls = @ + 1]

\* handle_error up to the request sent by query_ollama
handle_error(error_code, context_info) ==
    LET failure_type == classify_failure(error_code)
        screenshot_path ==
            IF TruthyDict(context_info)
            THEN Get(context_info, "screenshot_path", None) ELSE None
        page_source ==
            IF TruthyDict(context_info)
            THEN Get(context_info, "page_source", None) ELSE None
        c == Frame(failure_type, context_info)
    IN IF recovery_triggered(failure_type, page_source)
       THEN handle_popup(c, page_source, screenshot_path)
       ELSE Return(c, "False")

\* target.get("text", "") in place of target["element_name"]
ElementNameFromText(target) == Get(target.v, "text", "")

\* target["element_name"], for a target that has it
ElementName(target) == target.v["element_name"]

\* target["element_name"] raises nothing: target is a dict with that key
HasElementName(target) ==
    target.json = "dict" /\ "element_name" \in DOMAIN target.v

\* the loop over the suggestions, from suggestion i on, up to the call of a
\* keyword
RECURSIVE dispatch_suggestions(_, _)
dispatch_suggestions(c, i) ==
    IF c.suggestions.json # "list" THEN handle_error_except(c)
    ELSE IF i > Len(c.suggestions.items) THEN Return(c, "False")
    ELSE LET step == c.suggestions.items[i]
         IN IF step.json # "dict" THEN handle_error_except(c)
            ELSE LET action == Get(step.v, "action", None)
                     target == Get(step.v, "target", JDict(EmptyDict))
                 IN IF TruthyStr(action) /\ action \in Keys(eh_keyword_map)
                    THEN IF HasElementName(target)
                         THEN [c EXCEPT
                                  !.pc = "keyword", !.step = i,
                                  !.invoked = Append(@,
                                      [name |-> action,
                                       handler |-> Handler(eh_keyword_map,
                                                           action),
                                       arg |-> ElementName(target)])]
                         ELSE handle_error_except(c)
                    ELSE dispatch_suggestions(c, i + 1)

\* handle_popup after the response, and the loop of handle_error
after_query_ollama(c, reply) ==
    IF reply.kind = "raise" THEN handle_error_except(c)
    ELSE IF reply.json = Unparsable THEN handle_error_except(c)
    ELSE dispatch_suggestions([c EXCEPT !.suggestions = reply.json], 1)

\* the loop going on to the next suggestion after a keyword returned
after_keyword_continues(c, outcome) ==
    IF outcome = "raise" THEN handle_error_except(c)
    ELSE dispatch_suggestions(c, c.step + 1)

\* the keyword returned (return True) or raised (the except clause)
after_keyword(c, outcome) ==
    IF outcome = "raise" THEN handle_error_except(c)
    ELSE Return(c, "True")

\* ErrorHandler.set_keyword_map
set_keyword_map(keyword_map) ==
    /\ eh_call.pc = "start"
    /\ eh_keyword_map' = keyword_map
    /\ UNCHANGED <<eh_call, mgr_vars, ai_vars, drv_vars>>

classify_failure_call ==
    /\ eh_call.pc = "start"
    /\ eh_call' = [op |-> "classify_failure", pc |-> "done",
                   error_code |-> eh_call.error_code,
                   result |-> classify_failure(eh_call.error_code)]
    /\ UNCHANGED <<eh_keyword_map, mgr_vars, ai_vars, drv_vars>>

handle_error_call(context_info) ==
    /\ eh_call.pc = "start"
    /\ eh_call' = handle_error(eh_call.error_code, context_info)
    /\ UNCHANGED <<eh_keyword_map, mgr_vars, ai_vars, drv_vars>>

query_ollama_return(reply) ==
    /\ eh_call.pc = "infer"
    /\ eh_call' = after_query_ollama([eh_call EXCEPT !.reply = reply], reply)
    /\ UNCHANGED <<eh_keyword_map, mgr_vars, ai_vars, drv_vars>>

keyword_return(outcome) ==
    /\ eh_call.pc = "keyword"
    /\ eh_call' = after_keyword([eh_call EXCEPT !.keyword_outcome = outcome],
                                outcome)
    /\ UNCHANGED <<eh_keyword_map, mgr_vars, ai_vars, drv_vars>>

-----------------------------------------------------------------------------
(* Inference text: Python strings, as sequences of characters.  A record    *)
(* {"action": ..., "target": {...}} of a structured array is one character  *)
(* of the text.                                                             *)

\* a suggestion as json.loads returns it: the action, and the target with its
\* fields in the order of the text
AIStep(action, target) == [action |-> action, target |-> target]
StepTokens == {"A", "B", "C", "D"}
StepOf(token) ==
    CASE token = "A" ->
           AIStep("press_element", << <<"element_name", "Continue">> >>)
      [] token = "B" ->
           AIStep("press_element",
                  << <<"index", "2">>, <<"element_name", "Login">> >>)
      [] token = "C" -> AIStep("enter_text", <<>>)
      [] token = "D" -> AIStep("swipe_up", << <<"text", "Next">> >>)

RECURSIVE Join(_)
Join(q) ==
    IF q = <<>> THEN <<>>
    ELSE IF Len(q) = 1 THEN q
    ELSE <<Head(q), ",", " ">> \o Join(Tail(q))

\* json.dumps of a list of records
Dumps(q) == <<"[">> \o Join(q) \o <<"]">>
JsonArrays ==
    UNION {{Dumps(q) : q \in [1..n -> StepTokens]} : n \in 0..MaxSteps}

\* the fence of a code block: three backticks (the character is written '
\* in this module)
Backtick == "'"
Fence == <<Backtick, Backtick, Backtick>>
TagJson == <<"j", "s", "o", "n">>
LanguageTags == {TagJson, <<"J", "S", "O", "N">>, <<"p", "y">>}

\* the text x in a fenced block whose opening fence carries the tag
Fenced(tag, x) == Fence \o tag \o <<"\n">> \o x \o <<"\n">> \o Fence

\* What the model answers: an array, bare, in a fenced block with a language
\* tag or with none, with white space around the block, with a blank in place
\* of the line end after the tag, and an array that stops before its end
RawResponses ==
    JsonArrays
    \cup {Fenced(tag, x) : tag \in LanguageTags \cup {<<>>}, x \in JsonArrays}
    \cup {<<" ">> \o Fenced(TagJson, x) \o <<"\n">> : x \in JsonArrays}
    \cup {Fence \o TagJson \o <<" ">> \o x \o Fence : x \in JsonArrays}
    \cup {SubSeq(x, 1, Len(x) - 1) : x \in JsonArrays}

WhiteSpace == {" ", "\n"}

\* str.strip()
RECURSIVE lstrip(_)
lstrip(t) ==
    IF t # <<>> /\ Head(t) \in WhiteSpace THEN lstrip(Tail(t)) ELSE t
RECURSIVE rstrip(_)
rstrip(t) ==
    IF t # <<>> /\ t[Len(t)] \in WhiteSpace
    THEN rstrip(SubSeq(t, 1, Len(t) - 1)) ELSE t
strip(t) == rstrip(lstrip(t))

EndsWith(t, suffix) ==
    Len(t) >= Len(suffix)
    /\ SubSeq(t, Len(t) - Len(suffix) + 1, Len(t)) = suffix

\* a substitution that takes any language tag up to the end of the line off
\* the opening fence
re_sub_any_tag(t) ==
    LET nl == {p \in 1..Len(t) : t[p] = "\n"}
        first == CHOOSE p \in nl : \A p2 \in nl : p <= p2
        a == IF StartsWith(t, Fence) /\ nl # {}
             THEN SubSeq(t, first + 1, Len(t)) ELSE t
    IN IF EndsWith(a, Fence) THEN SubSeq(a, 1, Len(a) - 3) ELSE a

\* re.sub of the pattern "fence json line-end at the start, or fence at the
\* end" by the empty string, for a text t without a line end at its end: the
\* opening fence with the tag json and the line end is taken off the start,
\* a fence is taken off the end
re_sub(t) ==
    LET a == IF StartsWith(t, Fence \o TagJson \o <<"\n">>)
             THEN SubSeq(t, Len(Fence \o TagJson) + 2, Len(t)) ELSE t
    IN IF EndsWith(a, Fence) THEN SubSeq(a, 1, Len(a) - 3) ELSE a

\* json.loads: white space between the elements is skipped; the text must be
\* an array of records with commas between them
json_loads(t) ==
    LET NotWhite(c) == c \notin WhiteSpace
        e == SelectSeq(t, NotWhite)
        inner == SubSeq(e, 2, Len(e) - 1)
        ok == /\ Len(e) >= 2
              /\ e[1] = "["
              /\ e[Len(e)] = "]"
              /\ \/ inner = <<>>
                 \/ /\ Len(inner) % 2 = 1
                    /\ \A p \in 1..Len(inner) :
                          IF p % 2 = 1 THEN inner[p] \in StepTokens
                          ELSE inner[p] = ","
    IN IF ok
       THEN [ok |-> TRUE,
             value |-> [k \in 1..((Len(inner) + 1) \div 2) |->
                           StepOf(inner[2 * k - 1])]]
       ELSE [ok |-> FALSE, value |-> <<>>]

\* extract_json_from_llm_response of PopupHandler and of AIActionHandler: the
\* parsed list, or ValueError (ok is FALSE)
extract_json_from_llm_response(raw_response) ==
    json_loads(re_sub(strip(raw_response)))

-----------------------------------------------------------------------------
(* AIActionHandler.perform_ai_action *)

\* a call about to be made, and the frame of a call
AIPending == [op |-> "pending", pc |-> "start"]
AIFrame(xml_string, screenshot_path) ==
    [op |-> "perform_ai_action", pc |-> "start", xml_string |-> xml_string,
     screenshot_path |-> screenshot_path, inference_calls |-> 0,
     raw_response |-> <<>>, parsed |-> Absent, suggestion |-> <<>>,
     step |-> 0, calls |-> <<>>, warnings |-> 0, errors |-> 0]

\* the except clause of perform_ai_action: logged, the call returns
perform_ai_action_except(c) ==
    [c EXCEPT !.pc = "done", !.errors = @ + 1]

\* handle_action up to query_ollama
handle_action(c) ==
    IF Falsy(c.xml_string) \/ Falsy(c.screenshot_path)
    THEN perform_ai_action_except(c)
    ELSE [c EXCEPT !.pc = "query", !.inference_calls = @ + 1]

\* "element" in k.lower() or "text" in k.lower()
target_selected_by_name(k) ==
    k \in {"element", "element_name", "Element_Name", "text"}

\* "element" or "text" in k.lower(): the non-empty string "element" is true
target_selected(k) == TRUE

\* next((v for k, v in target.items() if ...), None)
element_value(target) ==
    LET sel == {p \in 1..Len(target) : target_selected(target[p][1])}
    IN IF sel = {} THEN None
       ELSE target[CHOOSE p \in sel : \A p2 \in sel : p <= p2][2]

\* the loop over the suggestion from step i on, up to the next keyword call
RECURSIVE ai_loop(_, _)
ai_loop(c, i) ==
    IF i > Len(c.suggestion) THEN [c EXCEPT !.pc = "done"]
    ELSE LET action == c.suggestion[i].action
         IN IF ~Falsy(action) /\ action \in Keys(ai_keyword_map)
            THEN [c EXCEPT !.pc = "keyword", !.step = i,
                     !.calls = Append(@,
                        [step |-> i,
                         handler |-> Handler(ai_keyword_map, action),
                         arg |-> element_value(c.suggestion[i].target)])]
            ELSE ai_loop([c EXCEPT !.warnings = @ + 1], i + 1)

\* query_ollama returned the text or raised; the text is parsed
ai_after_query_ollama(c, reply) ==
    IF reply.raised THEN perform_ai_action_except(c)
    ELSE LET parsed == extract_json_from_llm_response(reply.text)
             c1 == [c EXCEPT !.raw_response = reply.text, !.parsed = parsed]
         IN IF ~parsed.ok THEN perform_ai_action_except(c1)
            ELSE ai_loop([c1 EXCEPT !.suggestion = parsed.value], 1)

\* the keyword returned, and the loop goes on, or raised
ai_after_keyword(c, outcome) ==
    IF outcome = "raise" THEN perform_ai_action_except(c)
    ELSE ai_loop(c, c.step + 1)

\* AIActionHandler.set_keyword_map
ai_set_keyword_map(keyword_map) ==
    /\ ai_call.pc = "start"
    /\ ai_call.op = "pending"
    /\ ai_keyword_map' = keyword_map
    /\ UNCHANGED <<ai_call, mgr_vars, eh_vars, drv_vars>>

perform_ai_action_call(xml_string, screenshot_path) ==
    /\ ai_call.pc = "start"
    /\ ai_call' = handle_action(AIFrame(xml_string, screenshot_path))
    /\ UNCHANGED <<ai_keyword_map, mgr_vars, eh_vars, drv_vars>>

ai_query_ollama_return(reply) ==
    /\ ai_call.pc = "query"
    /\ ai_call' = ai_after_query_ollama(ai_call, reply)
    /\ UNCHANGED <<ai_keyword_map, mgr_vars, eh_vars, drv_vars>>

ai_keyword_return(outcome) ==
    /\ ai_call.pc = "keyword"
    /\ ai_call' = ai_after_keyword(ai_call, outcome)
    /\ UNCHANGED <<ai_keyword_map, mgr_vars, eh_vars, drv_vars>>

-----------------------------------------------------------------------------
(* The Playwright driver (engines/drivers/playwright.py) *)

BrowserUrls == {"about:blank", "https://www.google.com"}
BrowserNames == {"chromium", "Firefox", "edge"}
RemoteUrls == {"", "ws://grid:3000"}
AppNames == {"https://example.org"}
EventNames == {None, "launch"}

\* browser_name.lower()
Lower(name) == IF name = "Firefox" THEN "firefox" ELSE name
Supported(name) == Lower(name) \in {"chromium", "firefox", "webkit"}

\* How the calls into the playwright library end: all return, the launch of
\* (or the connection to) the browser raises, or page.goto raises
LibOutcomes == {"ok", "launch_raises", "goto_raises"}

\* a new page: it shows about:blank until it is navigated
NewPage == [url |-> "about:blank"]
Goto(page, url) == [page EXCEPT !.url = url]

\* Playwright.__init__ with the capabilities of the configuration
PlaywrightInit(browser_url, browser_name, remote_url) ==
    [browser_url |-> browser_url, browser_name |-> browser_name,
     remote_url |-> remote_url, driver |-> Absent, browser |-> FALSE,
     playwright |-> FALSE, sync_playwright |-> FALSE, ui_helper |-> FALSE,
     last |-> [op |-> "__init__", path |-> "none", result |-> "returned",
               events |-> <<>>]]

Ended(d, op, path, result, events) ==
    [d EXCEPT !.last = [op |-> op, path |-> path, result |-> result,
                        events |-> events]]

\* _init_sync_driver: nothing when sync_playwright is set; else the browser,
\* a context and a new page, which is not navigated
init_sync_driver(d, op, lib) ==
    IF d.sync_playwright THEN Ended(d, op, "sync", "returned", <<>>)
    ELSE LET d1 == [d EXCEPT !.sync_playwright = TRUE]
         IN IF ~Supported(d.browser_name) \/ lib = "launch_raises"
            THEN Ended(d1, op, "sync", "raised", <<>>)
            ELSE Ended([d1 EXCEPT !.browser = TRUE, !.driver = NewPage,
                                  !.ui_helper = TRUE],
                       op, "sync", "returned", <<>>)

\* start_session, run to its end in a thread of its own: the browser, a
\* context, a new page, the navigation to browserURL, the event
start_session(d, op, event_name, lib) ==
    LET d1 == [d EXCEPT !.playwright = TRUE]
    IN IF ~Supported(d.browser_name) \/ lib = "launch_raises"
       THEN Ended(d1, op, "async", "raised", <<>>)
       ELSE IF lib = "goto_raises"
       THEN Ended([d1 EXCEPT !.browser = TRUE, !.driver = NewPage],
                  op, "async", "raised", <<>>)
       ELSE Ended([d1 EXCEPT !.browser = TRUE,
                             !.driver = Goto(NewPage, d.browser_url),
                             !.ui_helper = TRUE],
                  op, "async", "returned",
                  IF Falsy(event_name) THEN <<>> ELSE <<event_name>>)

\* the start of launch_app and of launch_other_app: "if self.driver is None"
ensure_driver(d, op, in_loop, event_name, lib) ==
    IF d.driver # Absent THEN Ended(d, op, "none", "returned", <<>>)
    ELSE IF in_loop THEN start_session(d, op, event_name, lib)
    ELSE init_sync_driver(d, op, lib)

\* Playwright.launch_app, called inside a running event loop or outside
launch_app(in_loop, event_name, lib) ==
    /\ pw # Absent
    /\ pw' = ensure_driver(pw, "launch_app", in_loop, event_name, lib)
    /\ UNCHANGED <<mgr_vars, eh_vars, ai_vars, ps_call>>

\* Playwright.launch_other_app: the same start, then self.driver.goto
launch_other_app(app_name, in_loop, event_name, lib) ==
    /\ pw # Absent
    /\ LET d == ensure_driver(pw, "launch_other_app", in_loop, event_name,
                              lib)
       IN pw' = IF d.last.result = "raised" THEN d
                ELSE IF d.driver = Absent \/ lib = "goto_raises"
                THEN Ended(d, "launch_other_app", d.last.path, "raised",
                           d.last.events)
                ELSE Ended([d EXCEPT !.driver = Goto(@, app_name)],
                           "launch_other_app", d.last.path, "returned",
                           d.last.events \o
                              (IF Falsy(event_name) THEN <<>>
                               ELSE <<event_name>>))
    /\ UNCHANGED <<mgr_vars, eh_vars, ai_vars, ps_call>>

\* How the close and stop calls of terminate end: all return, or one raises
CloseOutcomes == {"ok", "close_raises"}

\* Playwright.terminate: nothing without a page; else the page, the browser
\* and the playwright handles are closed and, whether or not that raised
\* (the exception is logged), the four fields are set to None
terminate(event_name, closing) ==
    /\ pw # Absent
    /\ pw' = IF pw.driver = Absent
             THEN Ended(pw, "terminate", "none", "returned", <<>>)
             ELSE Ended([pw EXCEPT !.driver = Absent, !.browser = FALSE,
                                   !.playwright = FALSE,
                                   !.sync_playwright = FALSE],
                        "terminate", closing, "returned",
                        IF Falsy(event_name) \/ closing = "close_raises"
                        THEN <<>> ELSE <<event_name>>)
    /\ UNCHANGED <<mgr_vars, eh_vars, ai_vars, ps_call>>

-----------------------------------------------------------------------------
(* PlaywrightPageSource.assert_elements                                     *)
(* (engines/elementsources/playwright_page_source.py)                       *)

\* the loop of assert_elements runs while less than timeout units of time
\* have passed: the timeouts of the model are 0..MaxPolls
MaxPolls == 2

\* An element identifier, with the type utils.determine_element_type gives it
Element(kind, name) == [kind |-> kind, name |-> name]
TextLogin == Element("Text", "Login")
XPathButton == Element("XPath", "//button")
CssOk == Element("CSS", "#ok")
ImageLogo == Element("Image", "logo.png")

determine_element_type(el) == el.kind

\* what a page can show: any of the elements the page source can look for
PageElements == {TextLogin, XPathButton, CssOk}
Pages == SUBSET PageElements

\* the lists handed to assert_elements, and the rules (one is not a rule)
ElementLists ==
    { <<>>, <<TextLogin>>, <<XPathButton>>, <<CssOk>>, <<ImageLogo>>,
      <<TextLogin, XPathButton>>, <<XPathButton, CssOk>>,
      <<TextLogin, XPathButton, CssOk>>, <<TextLogin, TextLogin>> }
Rules == {"any", "all", "each"}

\* [el for el in elements if determine_element_type(el) in kinds]
OfKinds(elements, kinds) ==
    LET Test(el) == determine_element_type(el) \in kinds
    IN SelectSeq(elements, Test)

\* ui_text_search: with 'any' the first text found ends the search; with
\* 'all' the set of the texts found is as large as the list is long
ui_text_search(page, texts, rule) ==
    LET found_texts == {texts[i] : i \in {j \in 1..Len(texts) :
                                             texts[j] \in page}}
    IN IF rule = "any" THEN found_texts # {}
       ELSE Cardinality(found_texts) = Len(texts)

\* xpath_found and selector_found: True to begin with, and computed from the
\* locators only when the list is not empty
locators_found(page, locators, rule) ==
    IF locators # <<>>
    THEN IF rule = "all"
         THEN \A i \in 1..Len(locators) : locators[i] \in page
         ELSE \E i \in 1..Len(locators) : locators[i] \in page
    ELSE TRUE

\* the rule evaluation of one iteration, on the page source just fetched
elements_found(page, elements, rule) ==
    LET texts == OfKinds(elements, {"Text"})
        xpaths == OfKinds(elements, {"XPath"})
        other_selectors == OfKinds(elements, {"CSS"})
        text_found == IF texts # <<>> THEN ui_text_search(page, texts, rule)
                      ELSE rule = "all"
        xpath_found == locators_found(page, xpaths, rule)
        selector_found == locators_found(page, other_selectors, rule)
    IN IF rule = "any"
       THEN text_found \/ xpath_found \/ selector_found
       ELSE text_found /\ xpath_found /\ selector_found

\* the listed elements the page shows
Listed_on(page, elements) ==
    {elements[i] : i \in {j \in 1..Len(elements) : elements[j] \in page}}

\* no call yet, on a page
PSPending(page) == [op |-> "pending", pc |-> "start", page |-> page]

\* a call in its loop; present collects the listed elements that the page
\* has shown since the call began
PSFrame(elements, timeout, rule, page) ==
    [op |-> "assert_elements", pc |-> "loop", elements |-> elements,
     timeout |-> timeout, rule |-> rule, clock |-> 0, polls |-> 0,
     page |-> page, present |-> Listed_on(page, elements),
     result |-> "none"]

PSReturn(c, result) == [c EXCEPT !.pc = "done", !.result = result]

\* assert_elements up to its loop: ValueError for a rule that is none
assert_elements_call(elements, timeout, rule) ==
    /\ ps_call.pc = "start"
    /\ ps_call' =
          LET c == PSFrame(elements, timeout, rule, ps_call.page)
          IN IF rule \notin {"any", "all"} THEN PSReturn(c, "ValueError")
             ELSE c
    /\ UNCHANGED <<mgr_vars, eh_vars, ai_vars, pw>>

\* the test of the while loop and one iteration: the page source is
\* fetched, the rule is evaluated, and dt units of time pass before the test
\* is made again
assert_elements_iteration(dt) ==
    /\ ps_call.op = "assert_elements"
    /\ ps_call.pc = "loop"
    /\ ps_call' =
          IF ~(ps_call.clock < ps_call.timeout)
          THEN PSReturn(ps_call, "TimeoutError")
          ELSE IF elements_found(ps_call.page, ps_call.elements,
                                 ps_call.rule)
          THEN PSReturn([ps_call EXCEPT !.polls = @ + 1], "True")
          ELSE [ps_call EXCEPT !.polls = @ + 1, !.clock = @ + dt]
    /\ UNCHANGED <<mgr_vars, eh_vars, ai_vars, pw>>

\* the page changes while the call sleeps
page_changes(page) ==
    /\ ps_call.op = "assert_elements"
    /\ ps_call.pc = "loop"
    /\ page # ps_call.page
    /\ ps_call' = [ps_call EXCEPT
                      !.page = page,
                      !.present = @ \cup Listed_on(page, ps_call.elements)]
    /\ UNCHANGED <<mgr_vars, eh_vars, ai_vars, pw>>

-----------------------------------------------------------------------------
(* The specification *)

\* LLMAgentManager.__init__
InitManager ==
    /\ configs = EmptyDict
    /\ agents = EmptyDict
    /\ trigger_map = EmptyDict
    /\ session_tools = EmptyDict
    /\ oe_pc = "idle"
    /\ oe_result = "none"
    /\ context = Absent
    /\ tasks = <<>>
    /\ event = Absent
    /\ commands = <<>>
    /\ oe_errors = 0
    /\ disabled_log = <<>>
    /\ nRegs = 0

\* no AIActionHandler call, no Playwright object and no call of the page
\* source
InitNoDrivers ==
    /\ ai_keyword_map = EmptyDict
    /\ ai_call = NoCall
    /\ pw = Absent
    /\ ps_call = NoCall

Init ==
    /\ InitManager
    /\ eh_keyword_map = EmptyDict
    /\ eh_call = NoCall
    /\ InitNoDrivers

Next ==
    \/ \E name \in AgentNames, config \in Configs :
          register_agent(name, config) /\ UNCHANGED non_mgr_vars
    \/ \E r \in Registrations :
          register_tools_for_session(r[1], r[2]) /\ UNCHANGED non_mgr_vars
    \/ \E s \in Sessions : unregister_session(s) /\ UNCHANGED non_mgr_vars
    \/ \E e \in Events : on_event(e) /\ UNCHANGED non_mgr_vars
    \/ gather_return /\ UNCHANGED non_mgr_vars
    \/ \E i \in 1..Len(tasks) : execute_agent_call(i) /\ UNCHANGED non_mgr_vars
    \/ \E i \in 1..Len(tasks), r \in ExecuteOutcomes :
          execute_agent_resume(i, r) /\ UNCHANGED non_mgr_vars
    \/ \E i \in 1..Len(tasks) : dispatch_control(i) /\ UNCHANGED non_mgr_vars
    \/ \E i \in 1..Len(tasks), o \in {"return", "raise"} :
          dispatch_sync(i, o) /\ UNCHANGED non_mgr_vars
    \/ \E i \in 1..Len(tasks) : dispatch_async_call(i) /\ UNCHANGED non_mgr_vars
    \/ \E i \in 1..Len(tasks), o \in {"return", "raise"} :
          dispatch_async_resume(i, o) /\ UNCHANGED non_mgr_vars
    \/ \E i \in 1..Len(tasks) : dispatch_unknown(i) /\ UNCHANGED non_mgr_vars

Spec == Init /\ [][Next]_vars

\* The manager with sessions that have no capabilities among the registered
\* ones, and agents that give one answer
NextSessions ==
    \/ \E name \in AgentNames, config \in Configs :
          register_agent(name, config) /\ UNCHANGED non_mgr_vars
    \/ \E r \in SessionRegistrations :
          register_tools_for_session(r[1], r[2]) /\ UNCHANGED non_mgr_vars
    \/ \E s \in Sessions : unregister_session(s) /\ UNCHANGED non_mgr_vars
    \/ \E e \in Events : on_event(e) /\ UNCHANGED non_mgr_vars
    \/ gather_return /\ UNCHANGED non_mgr_vars
    \/ \E i \in 1..Len(tasks) : execute_agent_call(i) /\ UNCHANGED non_mgr_vars
    \/ \E i \in 1..Len(tasks), r \in FewExecuteOutcomes :
          execute_agent_resume(i, r) /\ UNCHANGED non_mgr_vars
    \/ \E i \in 1..Len(tasks) : dispatch_control(i) /\ UNCHANGED non_mgr_vars
    \/ \E i \in 1..Len(tasks), o \in {"return", "raise"} :
          dispatch_sync(i, o) /\ UNCHANGED non_mgr_vars
    \/ \E i \in 1..Len(tasks) : dispatch_async_call(i) /\ UNCHANGED non_mgr_vars
    \/ \E i \in 1..Len(tasks), o \in {"return", "raise"} :
          dispatch_async_resume(i, o) /\ UNCHANGED non_mgr_vars
    \/ \E i \in 1..Len(tasks) : dispatch_unknown(i) /\ UNCHANGED non_mgr_vars

SpecSessions == Init /\ [][NextSessions]_vars

\* The same under the scheduling of the asyncio event loop: a task that can
\* go on in its loop of _process_actions does go on, and the handler and the
\* publication it awaits return
FairDispatch ==
    \A i \in 1..(MaxRegs + 1) :
        /\ WF_vars(dispatch_control(i) /\ UNCHANGED non_mgr_vars)
        /\ WF_vars(\E o \in {"return", "raise"} :
                      dispatch_sync(i, o) /\ UNCHANGED non_mgr_vars)
        /\ WF_vars(dispatch_async_call(i) /\ UNCHANGED non_mgr_vars)
        /\ WF_vars(\E o \in {"return", "raise"} :
                      dispatch_async_resume(i, o) /\ UNCHANGED non_mgr_vars)
        /\ WF_vars(dispatch_unknown(i) /\ UNCHANGED non_mgr_vars)

SpecSessionsFair == Init /\ [][NextSessions]_vars /\ FairDispatch

\* The same when, in addition, every task is started, every awaited
\* agent.execute returns or raises, and gather returns once it can
FairTurns ==
    /\ \A i \in 1..(MaxRegs + 1) :
          /\ WF_vars(execute_agent_call(i) /\ UNCHANGED non_mgr_vars)
          /\ WF_vars(\E r \in FewExecuteOutcomes :
                        execute_agent_resume(i, r) /\ UNCHANGED non_mgr_vars)
    /\ WF_vars(gather_return /\ UNCHANGED non_mgr_vars)

SpecSessionsLive ==
    Init /\ [][NextSessions]_vars /\ FairDispatch /\ FairTurns

\* The manager with agents whose answer names a private entry
NextPrivate ==
    \/ \E name \in AgentNames, config \in Configs :
          register_agent(name, config) /\ UNCHANGED non_mgr_vars
    \/ \E r \in Registrations :
          register_tools_for_session(r[1], r[2]) /\ UNCHANGED non_mgr_vars
    \/ \E s \in Sessions : unregister_session(s) /\ UNCHANGED non_mgr_vars
    \/ \E e \in Events : on_event(e) /\ UNCHANGED non_mgr_vars
    \/ gather_return /\ UNCHANGED non_mgr_vars
    \/ \E i \in 1..Len(tasks) : execute_agent_call(i) /\ UNCHANGED non_mgr_vars
    \/ \E i \in 1..Len(tasks), r \in PrivateExecuteOutcomes :
          execute_agent_resume(i, r) /\ UNCHANGED non_mgr_vars
    \/ \E i \in 1..Len(tasks) : dispatch_control(i) /\ UNCHANGED non_mgr_vars
    \/ \E i \in 1..Len(tasks), o \in {"return", "raise"} :
          dispatch_sync(i, o) /\ UNCHANGED non_mgr_vars
    \/ \E i \in 1..Len(tasks) : dispatch_async_call(i) /\ UNCHANGED non_mgr_vars
    \/ \E i \in 1..Len(tasks), o \in {"return", "raise"} :
          dispatch_async_resume(i, o) /\ UNCHANGED non_mgr_vars
    \/ \E i \in 1..Len(tasks) : dispatch_unknown(i) /\ UNCHANGED non_mgr_vars

SpecPrivate == Init /\ [][NextPrivate]_vars

\* The manager with the agents it creates: every agent is a PydanticAIClient,
\* whose execute returns a response without actions, so that
\* _process_actions returns before its loop
NextClient ==
    \/ \E name \in AgentNames, config \in Configs :
          register_agent(name, config) /\ UNCHANGED non_mgr_vars
    \/ \E r \in ClientRegistrations :
          register_tools_for_session(r[1], r[2]) /\ UNCHANGED non_mgr_vars
    \/ \E s \in Sessions : unregister_session(s) /\ UNCHANGED non_mgr_vars
    \/ \E e \in Events : on_event(e) /\ UNCHANGED non_mgr_vars
    \/ gather_return /\ UNCHANGED non_mgr_vars
    \/ \E i \in 1..Len(tasks) : execute_agent_call(i) /\ UNCHANGED non_mgr_vars
    \/ \E i \in 1..Len(tasks), run \in RunOutcomes :
          agent_execute_return(i, run) /\ UNCHANGED non_mgr_vars

SpecClient == Init /\ [][NextClient]_vars

\* The ErrorHandler on its own: ErrorHandler.__init__ with keyword_map or {},
\* and one call with an error code
InitEH ==
    /\ InitManager
    /\ eh_keyword_map = EmptyDict
    /\ \E code \in ErrorCodes : eh_call = Pending(code)
    /\ InitNoDrivers

NextEH ==
    \/ \E km \in KeywordMapsEH : set_keyword_map(km)
    \/ classify_failure_call
    \/ \E ci \in ContextInfos : handle_error_call(ci)
    \/ \E reply \in Replies : query_ollama_return(reply)
    \/ \E o \in {"return", "raise"} : keyword_return(o)

SpecEH == InitEH /\ [][NextEH]_vars

\* The AIActionHandler on its own: AIActionHandler.__init__ with keyword_map
\* or {}, and one call of perform_ai_action
InitAI ==
    /\ InitManager
    /\ eh_keyword_map = EmptyDict
    /\ eh_call = NoCall
    /\ ai_keyword_map = EmptyDict
    /\ ai_call = AIPending
    /\ pw = Absent
    /\ ps_call = NoCall

NextAI ==
    \/ \E km \in KeywordMapsEH : ai_set_keyword_map(km)
    \/ \E x \in {"", "<hierarchy/>"}, p \in {None, "shot.png"} :
          perform_ai_action_call(x, p)
    \/ \E reply \in {[raised |-> TRUE, text |-> <<>>]}
                     \cup [raised : {FALSE}, text : RawResponses] :
          ai_query_ollama_return(reply)
    \/ \E o \in {"return", "raise"} : ai_keyword_return(o)

SpecAI == InitAI /\ [][NextAI]_vars

\* The Playwright driver on its own, constructed from a configuration
InitPW ==
    /\ InitManager
    /\ eh_keyword_map = EmptyDict
    /\ eh_call = NoCall
    /\ ai_keyword_map = EmptyDict
    /\ ai_call = NoCall
    /\ \E u \in BrowserUrls, n \in BrowserNames, r \in RemoteUrls :
          pw = PlaywrightInit(u, n, r)
    /\ ps_call = NoCall

NextPW ==
    \/ \E in_loop \in BOOLEAN, ev \in EventNames, lib \in LibOutcomes :
          launch_app(in_loop, ev, lib)
    \/ \E a \in AppNames, in_loop \in BOOLEAN, ev \in EventNames,
          lib \in LibOutcomes :
          launch_other_app(a, in_loop, ev, lib)
    \/ \E ev \in EventNames, closing \in CloseOutcomes :
          terminate(ev, closing)

SpecPW == InitPW /\ [][NextPW]_vars

\* The page source on its own: one call of assert_elements on a page
InitPS ==
    /\ InitManager
    /\ eh_keyword_map = EmptyDict
    /\ eh_call = NoCall
    /\ ai_keyword_map = EmptyDict
    /\ ai_call = NoCall
    /\ pw = Absent
    /\ \E page \in Pages : ps_call = PSPending(page)

NextPS ==
    \/ \E elements \in ElementLists, timeout \in 0..MaxPolls, rule \in Rules :
          assert_elements_call(elements, timeout, rule)
    \/ \E dt \in 1..MaxPolls : assert_elements_iteration(dt)
    \/ \E page \in Pages : page_changes(page)

SpecPS == InitPS /\ [][NextPS]_vars

-----------------------------------------------------------------------------
(* Vocabulary of the properties *)

TaskIds == 1..Len(tasks)

\* the action list of the response a task received
Actions(t) == IF t.response = Absent THEN <<>> ELSE t.response.actions

ToolName(t, j) == Actions(t)[j].tool_name

\* the loop of task t has gone through the action at position j
Passed(t, j) ==
    \/ t.pc \in {"loop", "await"} /\ j < t.idx
    \/ t.pc = "done" /\ t.outcome = "processed"

\* the entries of t's effects that belong to the action at position j
EntriesOf(t, j) == {p \in 1..Len(t.effects) : t.effects[p].idx = j}
EntriesOfKind(t, j, kind) == {p \in EntriesOf(t, j) : t.effects[p].kind = kind}

\* position j names a handler of the keyword map the loop works with
NamesHandler(t, j) ==
    /\ ToolName(t, j) \notin {"pause_execution", "resume_execution"}
    /\ \E q \in 1..Len(t.tools) : t.tools[q].name = ToolName(t, j)

NamesControl(t, j) ==
    ToolName(t, j) \in {"pause_execution", "resume_execution"}

\* the handler called for position j raised
RaisedAt(t, j) ==
    \E p \in EntriesOfKind(t, j, "end") : t.effects[p].what = "raise"

\* the action at position j had its effect: a command for a control action,
\* a call for a handler; an unknown tool has none
Dispatched(t, j) ==
    IF NamesControl(t, j) THEN EntriesOfKind(t, j, "publish") # {}
    ELSE IF NamesHandler(t, j) THEN EntriesOfKind(t, j, "invoke") # {}
    ELSE TRUE

\* a turn that received a response without requires_human_input ended as
\* _process_actions ends: nothing to do, no registry entry for the session,
\* or every action of the list dispatched
TurnCompleted(t) ==
    t.pc = "done" =>
        \/ t.outcome = "no_actions" /\ Actions(t) = <<>>
        \/ t.outcome = "no_session" /\ t.effects = <<>>
        \/ /\ t.outcome = "processed"
           /\ \A j \in 1..Len(Actions(t)) : Dispatched(t, j)

HasResponse(t) == t.response # Absent
ToDispatch(t) == HasResponse(t) /\ ~t.response.requires_human_input

-----------------------------------------------------------------------------
(* The properties *)

\* C1: in _process_actions a handler that raises does not end the loop: the
\* turn still ends normally, every handler named before the raising action
\* was called before it and every later action of the list is dispatched
\* after it (for [A, B, C] with B raising: A, then B, then C).
C1_HandlerExceptionKeepsLoop ==
    \A i \in TaskIds :
        LET t == tasks[i]
        IN \A j \in 1..Len(Actions(t)) :
              RaisedAt(t, j) =>
                 LET raise == CHOOSE p \in EntriesOfKind(t, j, "end") : TRUE
                 IN /\ t.pc = "done" => t.outcome = "processed"
                    /\ t.pc # "done" => t.idx > j
                    /\ \A k \in 1..(j - 1) :
                          NamesHandler(t, k) =>
                             \E p \in EntriesOfKind(t, k, "invoke") : p < raise
                    /\ \A k \in (j + 1)..Len(Actions(t)) :
                          Passed(t, k) =>
                             /\ Dispatched(t, k)
                             /\ \A p \in EntriesOf(t, k) : p > raise

C1_Witness ==
    \E i \in TaskIds :
        /\ tasks[i].pc = "done"
        /\ Actions(tasks[i]) = <<ActTap, ActSwipe, ActPress>>
        /\ RaisedAt(tasks[i], 2)
        /\ EntriesOfKind(tasks[i], 1, "invoke") # {}
        /\ EntriesOfKind(tasks[i], 3, "invoke") # {}

\* C2: while one event is handled, an agent whose execute call raised (a
\* timeout is an exception) leaves the turns of the other agents alone: a
\* sibling that received a response without requires_human_input is never
\* cancelled, and when its turn is over all its actions were dispatched
\* (given that the session still had its registry entry when the response
\* arrived).
C2_FailedAgentLeavesSiblings ==
    \A i \in TaskIds, k \in TaskIds :
        (i # k /\ tasks[i].outcome = "error" /\ ToDispatch(tasks[k])) =>
            /\ tasks[k].pc \in {"loop", "await", "done"}
            /\ TurnCompleted(tasks[k])

C2_Witness ==
    \E i \in TaskIds, k \in TaskIds :
        /\ tasks[i].agent_name = "agent1"
        /\ tasks[k].agent_name = "agent2"
        /\ tasks[i].outcome = "error"
        /\ tasks[k].outcome = "processed"
        /\ Actions(tasks[k]) = <<ActTap, ActSwipe, ActPress>>
        /\ \A j \in 1..3 : EntriesOfKind(tasks[k], j, "invoke") # {}

\* C3: no exception leaves on_event: an exception of an agent's execute call
\* or of a handler is caught inside the task, so that gather never re-raises
\* and on_event returns.
C3_NoExceptionLeavesOnEvent ==
    /\ oe_result # "raised"
    /\ \A i \in TaskIds :
          /\ tasks[i].outcome # "propagated"
          /\ tasks[i].pc = "done" =>
                tasks[i].outcome \in {"no_agent", "error", "human",
                                      "no_actions", "no_session", "processed"}

C3_Witness == oe_pc = "idle" /\ oe_result = "returned" /\ oe_errors >= 2

\* C4: an event without a session id (no entry in extra, or an empty one)
\* gets no AgentContext and no agent task: on_event returns before building
\* them, and whenever a context or a task exists the event has a session
\* id, the one of the context.
C4_NoSessionIdNoAgent ==
    /\ oe_result = "no_session_id" =>
          context = Absent /\ tasks = <<>> /\ oe_pc = "idle"
    /\ (context # Absent \/ tasks # <<>>) =>
          /\ event # Absent
          /\ "session_id" \in DOMAIN event.extra
          /\ event.extra["session_id"] # ""
          /\ context.session_id = event.extra["session_id"]

C4_Witness ==
    /\ oe_result = "no_session_id"
    /\ "Keyword_fail" \in DOMAIN trigger_map
    /\ "s1" \in DOMAIN session_tools

\* the names register_agent was given with a disabled configuration
DisabledNames == {disabled_log[p] : p \in 1..Len(disabled_log)}

Listed(name) ==
    \E g \in DOMAIN trigger_map :
        \E p \in 1..Len(trigger_map[g]) : trigger_map[g][p] = name

\* C5 as stated: no trigger list holds a name that register_agent was given
\* with a disabled configuration.
C5_Original == \A name \in DisabledNames : ~Listed(name)

\* C5 amended: register_agent with a disabled configuration changes neither
\* configs nor agents nor trigger_map, and every name in a trigger list was
\* registered with an enabled configuration, the one configs holds for it;
\* a name given only with disabled configurations is in no list.
C5_DisabledIsNoOp ==
    /\ [][Len(disabled_log') > Len(disabled_log) =>
             UNCHANGED <<configs, agents, trigger_map>>]_vars
    /\ [](\A name \in AgentNames :
             Listed(name) =>
                /\ name \in DOMAIN configs
                /\ name \in DOMAIN agents
                /\ configs[name].enabled)

C5_Witness ==
    /\ "agent1" \in DisabledNames
    /\ ~Listed("agent1")
    /\ Listed("agent2")

\* the publish entries of a task's effects, and how often command c occurs
\* in a sequence of commands and in the effects of all the tasks
PublishEntries(t) == {p \in 1..Len(t.effects) : t.effects[p].kind = "publish"}
CountIn(cmds, c) == Cardinality({p \in 1..Len(cmds) : cmds[p] = c})
RECURSIVE CountPublished(_, _)
CountPublished(ts, c) ==
    IF ts = <<>> THEN 0
    ELSE Cardinality({p \in PublishEntries(Head(ts)) :
                         Head(ts).effects[p].data = c})
         + CountPublished(Tail(ts), c)
RECURSIVE NumPublished(_)
NumPublished(ts) ==
    IF ts = <<>> THEN 0
    ELSE Cardinality(PublishEntries(Head(ts))) + NumPublished(Tail(ts))

\* every command on the channel was published by an action of a turn, and
\* every such action published its command once
CommandsMatchEffects ==
    /\ Len(commands) = NumPublished(tasks)
    /\ \A q \in 1..Len(commands) :
          CountIn(commands, commands[q]) = CountPublished(tasks, commands[q])

\* C6: a response with requires_human_input ends the turn at once: no
\* handler is called and no command is published for any of its actions,
\* while the turns of the other agents of the same event go on and dispatch
\* their actions.
C6_HumanInputDiscardsActions ==
    /\ CommandsMatchEffects
    /\ \A i \in TaskIds :
          (HasResponse(tasks[i]) /\ tasks[i].response.requires_human_input) =>
              /\ tasks[i].pc = "done"
              /\ tasks[i].outcome = "human"
              /\ tasks[i].effects = <<>>
              /\ \A k \in TaskIds \ {i} :
                    ToDispatch(tasks[k]) =>
                        /\ tasks[k].pc \in {"loop", "await", "done"}
                        /\ TurnCompleted(tasks[k])

C6_Witness ==
    \E i \in TaskIds, k \in TaskIds :
        /\ tasks[i].outcome = "human"
        /\ Actions(tasks[i]) = <<ActBack, ActGhost, ActPauseReason>>
        /\ commands = <<Command("RESUME", "s1", None),
                        Command("PAUSE", "s1", "Paused by LLM agent"),
                        Command("PAUSE", "s1", "Paused by LLM agent")>>
        /\ tasks[k].outcome = "processed"

\* the command the action at position j of a turn has to publish
ExpectedCommand(t, j) ==
    LET parameters == Actions(t)[j].parameters
    IN IF ToolName(t, j) = "pause_execution"
       THEN [type |-> "PAUSE", session_id |-> event.extra["session_id"],
             params |-> IF "reason" \in DOMAIN parameters
                        THEN parameters["reason"]
                        ELSE "Paused by LLM agent"]
       ELSE [type |-> "RESUME", session_id |-> event.extra["session_id"],
             params |-> None]

\* C7: an action named pause_execution publishes exactly one PAUSE command
\* for the session of the event, with parameters.reason as its reason or the
\* default reason; one named resume_execution publishes exactly one RESUME
\* command for that session; no handler is called for either, also when the
\* session's keyword map has an entry of that name, and the loop goes on.
C7_ControlActionsPublishOnce ==
    /\ Len(commands) = NumPublished(tasks)
    /\ \A i \in TaskIds :
          LET t == tasks[i]
          IN \A j \in 1..Len(Actions(t)) :
                (NamesControl(t, j) /\ t.idx >= 1) =>
                    /\ EntriesOf(t, j) # {} => Passed(t, j)
                    /\ Passed(t, j) =>
                          /\ Cardinality(EntriesOf(t, j)) = 1
                          /\ \A p \in EntriesOf(t, j) :
                                /\ t.effects[p].kind = "publish"
                                /\ t.effects[p].data = ExpectedCommand(t, j)
                                /\ CountIn(commands, t.effects[p].data) >= 1

C7_Witness ==
    \E i \in TaskIds, k \in TaskIds :
        /\ tasks[i].outcome = "processed"
        /\ Actions(tasks[i]) = <<ActBack, ActGhost, ActPauseReason>>
        /\ tasks[k].outcome = "processed"
        /\ Actions(tasks[k]) = <<ActResume, ActPause, ActPause>>
        /\ CountIn(commands, Command("PAUSE", "s1", "popup")) = 1
        /\ CountIn(commands, Command("PAUSE", "s1", "Paused by LLM agent")) = 2
        /\ CountIn(commands, Command("RESUME", "s1", None)) = 1

\* the effects the first n actions of a turn have to produce, in order: a
\* command for a control action, a call and its end for an action whose tool
\* is in the snapshot of the session's tools, nothing for any other
RECURSIVE Expected(_, _)
Expected(t, n) ==
    IF n = 0 THEN <<>>
    ELSE Expected(t, n - 1) \o
         (IF NamesControl(t, n) THEN <<(<<"publish", n>>)>>
          ELSE IF NamesHandler(t, n)
               THEN <<(<<"invoke", n>>), (<<"end", n>>)>>
               ELSE <<>>)
Skeleton(t) == [p \in 1..Len(t.effects) |-> <<t.effects[p].kind, t.effects[p].idx>>]

\* C8: the handler calls and published commands of a turn are those of the
\* action list of the response, one action after the other in the order of
\* the list, each named handler called with the action's args and kwargs; an
\* action that occurs twice takes effect twice.
C8_EffectsFollowActionList ==
    \A i \in TaskIds :
        LET t == tasks[i]
        IN /\ t.pc = "loop" => Skeleton(t) = Expected(t, t.idx - 1)
           /\ t.pc = "await" =>
                 Skeleton(t) = Expected(t, t.idx - 1) \o <<(<<"invoke", t.idx>>)>>
           /\ t.outcome = "processed" =>
                 Skeleton(t) = Expected(t, Len(Actions(t)))
           /\ (t.pc \notin {"loop", "await"} /\ t.outcome # "processed") =>
                 t.effects = <<>>
           /\ \A p \in 1..Len(t.effects) :
                 t.effects[p].kind = "invoke" =>
                     LET a == Actions(t)[t.effects[p].idx]
                     IN /\ t.effects[p].what = Handler(t.tools, a.tool_name)
                        /\ t.effects[p].data =
                              [args |-> Get(a.parameters, "args", <<>>),
                               kwargs |-> Get(a.parameters, "kwargs", EmptyDict)]

C8_Witness ==
    \E i \in TaskIds, k \in TaskIds :
        /\ tasks[i].outcome = "processed"
        /\ Actions(tasks[i]) = <<ActResume, ActPause, ActPause>>
        /\ Len(tasks[i].effects) = 3
        /\ tasks[i].effects[2].data = tasks[i].effects[3].data
        /\ Actions(tasks[i])[2] = Actions(tasks[i])[3]
        /\ tasks[k].outcome = "processed"
        /\ Actions(tasks[k]) = <<ActTap, ActSwipe, ActPress>>
        /\ Len(tasks[k].effects) = 6

\* the action at position j names neither a control tool nor a tool of the
\* snapshot of the session's tools
NamesNothing(t, j) == ~NamesControl(t, j) /\ ~NamesHandler(t, j)

\* C9: an action whose tool is not among the session's tools is skipped: it
\* calls no handler, publishes nothing and raises nothing, and the actions
\* after it in the list are dispatched.
C9_UnknownToolSkipped ==
    \A i \in TaskIds :
        LET t == tasks[i]
        IN \A j \in 1..Len(Actions(t)) :
              (t.idx >= 1 /\ NamesNothing(t, j)) =>
                  /\ EntriesOf(t, j) = {}
                  /\ t.pc = "done" =>
                        /\ t.outcome = "processed"
                        /\ \A l \in (j + 1)..Len(Actions(t)) :
                              ~NamesNothing(t, l) => Dispatched(t, l)

C9_Witness ==
    \E i \in TaskIds :
        /\ tasks[i].outcome = "processed"
        /\ Actions(tasks[i]) = <<ActBack, ActGhost, ActPauseReason>>
        /\ NamesNothing(tasks[i], 2)
        /\ Len(tasks[i].effects) = 3
        /\ tasks[i].effects[3].kind = "publish"
        /\ tasks[i].effects[3].idx = 3

\* C10: when the session of the event has no entry in session_tools at the
\* moment the actions of a response are to be processed, none of the actions
\* takes effect (no handler call, no command) and the turn ends without an
\* exception.
C10_NoSessionEntryNoDispatch ==
    /\ [](\A i \in TaskIds :
             tasks[i].outcome = "no_session" =>
                 /\ tasks[i].pc = "done"
                 /\ tasks[i].effects = <<>>
                 /\ Actions(tasks[i]) # <<>>)
    /\ [][\A i \in TaskIds :
             (/\ i \in DOMAIN tasks'
              /\ tasks[i].pc = "exec"
              /\ HasResponse(tasks'[i])
              /\ ~tasks'[i].response.requires_human_input
              /\ Actions(tasks'[i]) # <<>>
              /\ context.session_id \notin DOMAIN session_tools) =>
                 /\ tasks'[i].pc = "done"
                 /\ tasks'[i].outcome = "no_session"
                 /\ tasks'[i].effects = <<>>
                 /\ commands' = commands]_vars

C10_Witness ==
    \E i \in TaskIds, k \in TaskIds :
        /\ tasks[i].outcome = "no_session"
        /\ Len(Actions(tasks[i])) = 3
        /\ "s1" \notin DOMAIN session_tools
        /\ tasks[k].outcome = "processed"
        /\ tasks[k].effects # <<>>

-----------------------------------------------------------------------------
(* Vocabulary of the properties of the popup recovery path *)

\* a handle_error call is under way or has returned; it has returned
InHandleError == eh_call.op = "handle_error"
Returned == InHandleError /\ eh_call.pc = "done"

\* the page_source and the screenshot_path the call was given
PageSource ==
    IF TruthyDict(eh_call.context_info)
    THEN Get(eh_call.context_info, "page_source", None) ELSE None
ScreenshotPath ==
    IF TruthyDict(eh_call.context_info)
    THEN Get(eh_call.context_info, "screenshot_path", None) ELSE None

\* the model was asked and its answer is this list of suggestions
Suggested(list) ==
    /\ eh_call.reply # Absent
    /\ eh_call.reply.kind = "text"
    /\ eh_call.reply.json = JList(list)

\* the one call of press_element("Continue")
PressElementContinue ==
    <<[name |-> "press_element", handler |-> "h_press_element",
       arg |-> "Continue"]>>

\* the class of the failure is that of the error code the call was given
FailureTypeOfCode ==
    [][(eh_call.pc = "start" /\ eh_call'.op = "handle_error") =>
          eh_call'.failure_type = classify_failure(eh_call.error_code)]_vars

\* C11: handle_error raises nothing to its caller, whatever the error code,
\* the context_info (None too), the outcome of the inference request and the
\* behaviour of the keyword; it returns False when there is no page_source,
\* when the inference request raises and when the answer does not parse.
C11_HandleErrorNeverRaises ==
    InHandleError =>
        /\ eh_call.result # "raised"
        /\ eh_call.pc = "done" => eh_call.result \in {"True", "False"}
        /\ (eh_call.pc = "done" /\ Falsy(PageSource)) =>
              /\ eh_call.result = "False"
              /\ eh_call.inference_calls = 0
              /\ eh_call.invoked = <<>>
        /\ (eh_call.reply # Absent /\ eh_call.reply.kind = "raise") =>
              /\ eh_call.pc = "done"
              /\ eh_call.result = "False"
              /\ eh_call.invoked = <<>>
        /\ (eh_call.reply # Absent /\ eh_call.reply.kind = "text"
               /\ eh_call.reply.json = Unparsable) =>
              /\ eh_call.pc = "done"
              /\ eh_call.result = "False"
              /\ eh_call.invoked = <<>>

C11_Witness ==
    /\ Returned
    /\ eh_call.keyword_outcome = "raise"
    /\ eh_call.errors = 1
    /\ eh_call.result = "False"

\* C12 as claimed: with a code of the screen_popup class, a non-empty
\* page_source, the suggestion press_element / element_name "Continue" and
\* press_element in the keyword map, handle_error calls
\* press_element("Continue") once and returns True.
C12_Original ==
    (/\ Returned
     /\ eh_call.failure_type = "screen_popup"
     /\ TruthyStr(PageSource)
     /\ "press_element" \in Keys(eh_keyword_map)
     /\ eh_call.reply = Absent \/ Suggested(<<PressContinue>>)) =>
        /\ eh_call.invoked = PressElementContinue
        /\ eh_call.result = "True"

\* C12: with an error code that starts with E0201 (the class screen_popup),
\* a context that holds a non-empty page_source and a non-empty
\* screenshot_path, the suggestion press_element / element_name "Continue"
\* and press_element in the keyword map, handle_error calls
\* press_element("Continue") once and nothing else, and returns True when
\* press_element returns.
C12_PressContinue ==
    /\ FailureTypeOfCode
    /\ [][(eh_call.pc = "start" /\ eh_call'.op = "handle_error"
              /\ StartsWith(eh_call.error_code, <<"E", "0", "2", "0", "1">>)
              /\ TruthyStr(Get(eh_call'.context_info, "page_source", None))
              /\ TruthyStr(Get(eh_call'.context_info, "screenshot_path", None)))
             => (eh_call'.pc = "infer" /\ eh_call'.inference_calls = 1)]_vars
    /\ []((/\ InHandleError
           /\ eh_call.failure_type = "screen_popup"
           /\ "press_element" \in Keys(eh_keyword_map)
           /\ Suggested(<<PressContinue>>)) =>
              /\ eh_call.pc \in {"keyword", "done"}
              /\ eh_call.invoked = PressElementContinue
              /\ eh_call.inference_calls = 1
              /\ (eh_call.pc = "done" /\ eh_call.keyword_outcome = "return")
                    => eh_call.result = "True")

C12_Witness ==
    /\ Returned
    /\ eh_call.failure_type = "screen_popup"
    /\ Suggested(<<PressContinue>>)
    /\ eh_call.invoked = PressElementContinue
    /\ eh_call.keyword_outcome = "return"
    /\ eh_call.result = "True"

\* suggestion i of the list is a dict whose action is a key of the keyword
\* map; the first such suggestion (0 when there is none)
KnownAt(list, i) ==
    /\ list[i].json = "dict"
    /\ TruthyStr(Get(list[i].v, "action", None))
    /\ Get(list[i].v, "action", None) \in Keys(eh_keyword_map)
FirstKnown(list) ==
    IF \E i \in 1..Len(list) : KnownAt(list, i)
    THEN CHOOSE i \in 1..Len(list) :
            KnownAt(list, i) /\ \A j \in 1..(i - 1) : ~KnownAt(list, j)
    ELSE 0

\* at most one keyword is called, and it is the keyword of the first
\* suggestion whose action is in the keyword map
CallsFirstKnownOnly ==
    /\ Len(eh_call.invoked) <= 1
    /\ eh_call.invoked # <<>> =>
          /\ eh_call.suggestions # Absent
          /\ eh_call.suggestions.json = "list"
          /\ LET list == eh_call.suggestions.items
                 f == FirstKnown(list)
             IN /\ f # 0
                /\ eh_call.step = f
                /\ eh_call.invoked[1].name = list[f].v["action"]
                /\ eh_call.invoked[1].handler =
                      Handler(eh_keyword_map, list[f].v["action"])

\* C13 as claimed: at most one keyword is called per handle_error call, the
\* one of the first suggestion whose action is in the keyword map, and
\* handle_error returns True exactly when a keyword was called.
C13_Original ==
    InHandleError =>
        /\ CallsFirstKnownOnly
        /\ eh_call.pc = "done" =>
              (eh_call.result = "True") = (eh_call.invoked # <<>>)

\* C13: at most one keyword is called per handle_error call, and it is the
\* one of the first suggestion, in the order of the list, whose action is in
\* the keyword map (suggestions before it with other actions are skipped);
\* handle_error returns True exactly when that keyword was called and
\* returned without raising.
C13_FirstKnownSuggestionOnly ==
    InHandleError =>
        /\ CallsFirstKnownOnly
        /\ eh_call.pc = "done" =>
              (eh_call.result = "True") =
                  (eh_call.invoked # <<>> /\ eh_call.keyword_outcome = "return")

C13_Witness ==
    /\ Returned
    /\ Suggested(<<SwipeUp, PressContinue, EnterName>>)
    /\ eh_call.step = 2
    /\ eh_call.invoked = PressElementContinue
    /\ eh_call.result = "True"

\* k.lower(), for the keys the targets of the model have
LowerCase(k) == IF k = "Element_Name" THEN "element_name" ELSE k

\* C14: the argument of the keyword is the value of the target's field whose
\* name, compared without regard to letter case, is the well-known name: a
\* target with the key "Element_Name" gives that field's value and the
\* keyword is called with it.
C14_CaseInsensitiveTargetKey ==
    (/\ InHandleError
     /\ eh_call.suggestions # Absent
     /\ eh_call.suggestions.json = "list"
     /\ FirstKnown(eh_call.suggestions.items) # 0) =>
        LET list == eh_call.suggestions.items
            f == FirstKnown(list)
            target == Get(list[f].v, "target", JDict(EmptyDict))
        IN (/\ \A j \in 1..f : list[j].json = "dict"
            /\ target.json = "dict") =>
              \A k \in DOMAIN target.v :
                  LowerCase(k) = "element_name" =>
                      /\ eh_call.pc \in {"keyword", "done"}
                      /\ Len(eh_call.invoked) = 1
                      /\ eh_call.invoked[1].arg = target.v[k]

\* C15: for an error code that classify_failure puts in a class other than
\* screen_popup (E9999_unknown is in general_error), handle_error sends no
\* inference request, calls no keyword and returns False, with and without
\* a page_source in the context.
C15_OtherClassesNoRecovery ==
    /\ [][(eh_call.pc = "start" /\ eh_call'.op = "handle_error") =>
             /\ eh_call'.failure_type = classify_failure(eh_call.error_code)
             /\ eh_call.error_code = E9999_unknown =>
                   eh_call'.failure_type = "general_error"
             /\ (~StartsWith(eh_call.error_code, <<"E", "0", "2", "0", "1">>)
                 /\ ~StartsWith(eh_call.error_code, <<"X", "0", "2", "0", "1">>))
                   => /\ eh_call'.pc = "done"
                      /\ eh_call'.result = "False"
                      /\ eh_call'.inference_calls = 0
                      /\ eh_call'.invoked = <<>>]_vars
    /\ []((InHandleError /\ eh_call.failure_type # "screen_popup") =>
             /\ eh_call.pc = "done"
             /\ eh_call.result = "False"
             /\ eh_call.inference_calls = 0
             /\ eh_call.invoked = <<>>
             /\ eh_call.errors = 0)

C15_Witness ==
    /\ Returned
    /\ eh_call.failure_type = "general_error"
    /\ TruthyStr(PageSource)
    /\ TruthyStr(ScreenshotPath)
    /\ "press_element" \in Keys(eh_keyword_map)
    /\ eh_call.result = "False"
    /\ eh_call.inference_calls = 0

\* C16: classify_failure gives every error code exactly one of four classes:
\* screen_popup exactly for the codes that start with E0201 or X0201,
\* keyword_execution exactly for E0401 or X0401, driver_issue exactly for
\* E0101, general_error for every other code, the empty one and the ones
\* that start with X0101 among them.
C16_ClassifyFailureTotal ==
    eh_call.op = "classify_failure" =>
        LET code == eh_call.error_code
            r == eh_call.result
            popup == \/ StartsWith(code, <<"E", "0", "2", "0", "1">>)
                     \/ StartsWith(code, <<"X", "0", "2", "0", "1">>)
            keyword == \/ StartsWith(code, <<"E", "0", "4", "0", "1">>)
                       \/ StartsWith(code, <<"X", "0", "4", "0", "1">>)
            driver == StartsWith(code, <<"E", "0", "1", "0", "1">>)
        IN /\ r \in {"screen_popup", "keyword_execution", "driver_issue",
                     "general_error"}
           /\ (r = "screen_popup") = popup
           /\ (r = "keyword_execution") = keyword
           /\ (r = "driver_issue") = driver
           /\ (r = "general_error") = (~popup /\ ~keyword /\ ~driver)
           /\ code = <<>> => r = "general_error"
           /\ StartsWith(code, <<"X", "0", "1", "0", "1">>) =>
                 r = "general_error"

C16_Witness ==
    /\ eh_call.op = "classify_failure"
    /\ eh_call.error_code = X0101_driver
    /\ eh_call.result = "general_error"

-----------------------------------------------------------------------------
(* Properties of the session capability registry *)

\* the two reserved tools, and an on_event call going on to the fan-out
ReservedTools ==
    <<Tool("pause_execution", "Pause the test execution", ("reason" :> "str")),
      Tool("resume_execution", "Resume the test execution", EmptyDict)>>
StartsAgents == oe_pc = "idle" /\ oe_pc' = "gather"

\* C17: for a session registered with a keyword map that has no capability,
\* _get_available_tools returns the two descriptors pause_execution and
\* resume_execution and nothing else; for every registered session it
\* returns one descriptor per public keyword, then these two.
C17_NoCapabilitiesTwoTools ==
    \A s \in DOMAIN session_tools :
        /\ Len(get_available_tools(s)) =
              Cardinality({q \in 1..Len(session_tools[s]) :
                  ~StartsWithUnderscore(session_tools[s][q].name)}) + 2
        /\ session_tools[s] = EmptyDict =>
              /\ Len(get_available_tools(s)) = 2
              /\ get_available_tools(s)[1].name = "pause_execution"
              /\ get_available_tools(s)[2].name = "resume_execution"
              /\ get_available_tools(s) = ReservedTools

C17_Witness ==
    /\ "s1" \in DOMAIN session_tools
    /\ session_tools["s1"] = EmptyDict
    /\ oe_pc = "gather"
    /\ context.session_id = "s1"
    /\ context.available_tools = ReservedTools

\* C18: for a session id that is not in session_tools (never registered, or
\* unregistered) _get_available_tools returns the empty list, without the
\* reserved tools, and on_event for an event of that session starts no agent.
C18_UnknownSessionNoTools ==
    /\ [](\A s \in Sessions :
             s \notin DOMAIN session_tools => get_available_tools(s) = <<>>)
    /\ [][StartsAgents => context'.session_id \in DOMAIN session_tools]_vars
    /\ [](oe_result = "no_tools" =>
             /\ oe_pc = "idle" /\ tasks = <<>> /\ context = Absent
             /\ \E s \in Sessions : s \notin DOMAIN session_tools)

C18_Witness ==
    /\ oe_result = "no_tools"
    /\ session_tools = EmptyDict
    /\ "Keyword_fail" \in DOMAIN trigger_map
    /\ \E a \in DOMAIN agents : agents[a].tools # EmptyDict

\* C19 as claimed: on_event builds a context and starts agents only for a
\* session that is registered with a keyword map that is not empty.
C19_Original ==
    [][StartsAgents =>
          /\ context'.session_id \in DOMAIN session_tools
          /\ session_tools[context'.session_id] # EmptyDict]_vars

\* C19: when the session of the event is not registered at all, on_event
\* builds no context and starts no agent; a session registered with an empty
\* keyword map still has the two reserved tools, so for it the context is
\* built with these two and the agents are started.
C19_UnregisteredSessionNoAgent ==
    /\ [][StartsAgents =>
             LET s == context'.session_id
             IN /\ s \in DOMAIN session_tools
                /\ context'.available_tools = get_available_tools(s)
                /\ Len(context'.available_tools) >= 2
                /\ session_tools[s] = EmptyDict =>
                      context'.available_tools = ReservedTools
                /\ Len(tasks') >= 1
                /\ \A i \in 1..Len(tasks') : tasks'[i].pc = "start"]_vars
    /\ [](oe_result \in {"no_session_id", "no_tools"} =>
             tasks = <<>> /\ context = Absent)

C19_Witness ==
    /\ oe_pc = "gather"
    /\ context.session_id \in DOMAIN session_tools
    /\ session_tools[context.session_id] = EmptyDict
    /\ context.available_tools = ReservedTools
    /\ \E i \in TaskIds : tasks[i].outcome = "processed"

\* C20: unregister_session is idempotent: a second call for the same session,
\* or a call for a session that was never registered, raises nothing and
\* leaves session_tools, for every session, as the first call left it, and
\* no call changes configs, agents or trigger_map.
C20_UnregisterIdempotent ==
    /\ [](\A s \in Sessions :
             LET once == Unregistered(session_tools, s)
             IN /\ once # KeyError
                /\ s \notin DOMAIN once
                /\ DOMAIN once = DOMAIN session_tools \ {s}
                /\ \A o \in DOMAIN once : once[o] = session_tools[o]
                /\ Unregistered(once, s) = once
                /\ s \notin DOMAIN session_tools => once = session_tools)
    /\ [][(DOMAIN session_tools' # DOMAIN session_tools
             /\ DOMAIN session_tools' \subseteq DOMAIN session_tools) =>
                /\ UNCHANGED <<configs, agents, trigger_map>>
                /\ \A o \in DOMAIN session_tools' :
                      session_tools'[o] = session_tools[o]]_vars

C20_Witness ==
    /\ session_tools = EmptyDict
    /\ oe_pc = "idle"
    /\ \E a \in DOMAIN agents : "tap" \in DOMAIN agents[a].tools

\* a task at the start of _process_actions(session_id, [action]) for one
\* action with the tool name n, and what its loop would do with the action
Probe(session_id, n) ==
    process_actions_begin(
        [NewTask("agent1") EXCEPT
            !.response = AgentResponse(<<"probe">>, <<Act(n, EmptyDict)>>,
                                       FALSE)],
        session_id, <<Act(n, EmptyDict)>>)
CanDispatch(session_id, n) ==
    /\ Probe(session_id, n).pc = "loop"
    /\ Dispatchable(Probe(session_id, n))
ToolNames == Keys(KeywordMap1) \cup Keys(KeywordMap2) \cup {"ghost"}

\* C21: register_tools_for_session(s, h2) for a session s that has a map h1
\* replaces the map: afterwards session_tools[s] is h2, s has one entry, a
\* name that only h1 has is not dispatched for s any more, a name of h2 is
\* dispatched to the handler of h2, and the maps of the other sessions are
\* the ones they were.
C21_RegistrationReplaces ==
    /\ [][\A r \in ClientRegistrations :
             register_tools_for_session(r[1], r[2]) =>
                /\ session_tools'[r[1]] = r[2]
                /\ DOMAIN session_tools' = DOMAIN session_tools \cup {r[1]}
                /\ \A o \in DOMAIN session_tools \ {r[1]} :
                      session_tools'[o] = session_tools[o]
                /\ \A n \in ToolNames \ Keys(r[2]) : ~CanDispatch(r[1], n)'
                /\ \A n \in Keys(r[2]) :
                      ~Reserved(n) =>
                         /\ CanDispatch(r[1], n)'
                         /\ Invocation(Probe(r[1], n))'.what =
                               Handler(r[2], n)]_vars
    /\ [](\A s \in DOMAIN session_tools, n \in ToolNames :
             CanDispatch(s, n) <=>
                n \in Keys(session_tools[s]) /\ ~Reserved(n))

C21_Witness ==
    /\ "s1" \in DOMAIN session_tools
    /\ session_tools["s1"] = KeywordMap2
    /\ "s2" \in DOMAIN session_tools
    /\ \E a \in DOMAIN agents : "swipe" \in DOMAIN agents[a].tools
    /\ ~CanDispatch("s1", "swipe")
    /\ CanDispatch("s1", "scroll")

\* the names of a list of Tool descriptors
NamesOf(tools) == {tools[q].name : q \in 1..Len(tools)}
KeywordMaps == {KeywordMap1, KeywordMap2, EmptyDict}

\* C22: no capability whose name starts with "_" is exposed to an agent: for
\* every session and every keyword map, the descriptors of
\* _get_available_tools, the available_tools of the context of an event and
\* the tools of every agent hold no such name, and hold every other name of
\* the map.
C22_PrivateNeverExposed ==
    /\ \A s \in Sessions :
          /\ \A n \in NamesOf(get_available_tools(s)) :
                ~StartsWithUnderscore(n)
          /\ s \in DOMAIN session_tools =>
                NamesOf(get_available_tools(s)) =
                   {n \in Keys(session_tools[s]) : ~StartsWithUnderscore(n)}
                   \cup {"pause_execution", "resume_execution"}
    /\ context # Absent =>
          \A n \in NamesOf(context.available_tools) : ~StartsWithUnderscore(n)
    /\ \A a \in DOMAIN agents :
          \A n \in DOMAIN agents[a].tools : ~StartsWithUnderscore(n)
    /\ \A km \in KeywordMaps :
          /\ DOMAIN PublicTools(km) =
                {n \in Keys(km) : ~StartsWithUnderscore(n)}
          /\ NamesOf(PublicDescriptors(km)) = DOMAIN PublicTools(km)

C22_Witness ==
    /\ oe_pc = "gather"
    /\ context.session_id \in DOMAIN session_tools
    /\ "_priv" \in Keys(session_tools[context.session_id])
    /\ "tap" \in NamesOf(context.available_tools)
    /\ \E a \in DOMAIN agents : "tap" \in DOMAIN agents[a].tools
    /\ \E i \in TaskIds : tasks[i].pc = "exec"

\* the public entries of the keyword maps of the registered sessions
LiveTools ==
    UNION {{<<n, PublicTools(session_tools[s])[n]>> :
               n \in DOMAIN PublicTools(session_tools[s])} :
           s \in DOMAIN session_tools}
ToolsOf(client) == {<<n, client.tools[n]>> : n \in DOMAIN client.tools}

\* C23: at all times the tool set of every registered agent is the public
\* part of the keyword maps that are registered now: it holds no capability
\* that a later registration replaced or that unregister_session removed,
\* and it holds every public capability of the registered sessions.
C23_AgentToolsMirrorLiveMap ==
    \A a \in DOMAIN agents : ToolsOf(agents[a]) = LiveTools

\* self.trigger_map.get(trigger, [])
agents_for(trigger) == Get(trigger_map, trigger, <<>>)
RECURSIVE SumLen(_, _)
SumLen(m, keys) ==
    IF keys = {} THEN 0
    ELSE LET k == CHOOSE x \in keys : TRUE
         IN Len(m[k]) + SumLen(m, keys \ {k})

\* C28: the list trigger_map holds for a trigger key is the list of the
\* enabled agents registered for that trigger, in the order of the
\* register_agent calls: every such call puts its name at the end of the
\* list of its trigger and leaves every other list as it is, a call for a
\* disabled agent and every other operation leave all lists as they are; a
\* trigger key nothing was registered for has the empty list, and an event
\* with that key starts no agent.
C28_TriggerMapRegistrationOrder ==
    /\ [][\A name \in AgentNames, config \in Configs :
             register_agent(name, config) =>
                \A t \in Triggers :
                   agents_for(t)' =
                      IF config.enabled /\ config.trigger = t
                      THEN Append(agents_for(t), name)
                      ELSE agents_for(t)]_vars
    /\ [][nRegs' = nRegs => trigger_map' = trigger_map]_vars
    /\ [](/\ SumLen(trigger_map, DOMAIN trigger_map) + Len(disabled_log)
                = nRegs
          /\ \A t \in DOMAIN trigger_map :
                /\ trigger_map[t] # <<>>
                /\ \A q \in 1..Len(trigger_map[t]) :
                      /\ trigger_map[t][q] \in DOMAIN agents
                      /\ configs[trigger_map[t][q]].enabled)
    /\ [][\A e \in Events :
             (on_event(e) /\ TriggerKey(e) \notin DOMAIN trigger_map) =>
                /\ agents_for(TriggerKey(e)) = <<>>
                /\ oe_result' = "no_agents"
                /\ tasks' = <<>>
                /\ oe_pc' = "idle"]_vars
    /\ [][StartsAgents =>
             /\ Len(tasks') = Len(agents_for(context'.event_type))
             /\ \A q \in 1..Len(tasks') :
                   tasks'[q].agent_name = agents_for(context'.event_type)[q]
         ]_vars

C28_Witness ==
    /\ agents_for("Keyword_fail") = <<"agent2", "agent1">>
    /\ oe_pc = "gather"
    /\ Len(tasks) = 2
    /\ tasks[1].agent_name = "agent2"
    /\ "Module_fail" \notin DOMAIN trigger_map

-----------------------------------------------------------------------------
(* Properties of the agent turn of PydanticAIClient *)

\* model output the library cannot parse, or that the client gets as text
\* that stops inside a structured block
MalformedRuns ==
    {[raised |-> TRUE, error |-> "UnexpectedModelBehavior"],
     [raised |-> FALSE, message |-> "truncated_block"]}
FailedRuns == [raised : {TRUE}, error : RunErrors]
OthersUntouched(i) ==
    /\ Len(tasks') = Len(tasks)
    /\ \A j \in 1..Len(tasks) : j # i => tasks'[j] = tasks[j]

\* C25: when the model output of an agent is malformed, the failure stays
\* with that agent: its task ends with no action dispatched (no handler
\* called, no command published), the tasks of the other agents of the event
\* are as they were, and no exception leaves on_event.
C25_MalformedOutputPerAgent ==
    /\ [][\A i \in 1..Len(tasks), run \in MalformedRuns :
             agent_execute_return(i, run) =>
                /\ tasks'[i].pc = "done"
                /\ tasks'[i].outcome \in {"human", "no_actions"}
                /\ tasks'[i].response.raised = FALSE
                /\ tasks'[i].response.actions = <<>>
                /\ tasks'[i].effects = <<>>
                /\ commands' = commands
                /\ OthersUntouched(i)]_vars
    /\ [](\A i \in TaskIds : tasks[i].outcome # "propagated")
    /\ [][gather_return => oe_result' = "returned"]_vars

C25_Witness ==
    /\ Len(tasks) = 2
    /\ tasks[1].response # Absent
    /\ tasks[1].response.message = <<"truncated_block">>
    /\ tasks[1].outcome = "no_actions"
    /\ tasks[2].response # Absent
    /\ tasks[2].response.message = <<"done">>

\* C26: when the inference call of an agent turn fails, the turn has no
\* suggestion: execute returns a response without actions, _execute_agent
\* returns with nothing dispatched for that agent, and the error leaves
\* neither of them.
C26_InferenceFailureNoSuggestion ==
    /\ [][\A i \in 1..Len(tasks), run \in FailedRuns :
             agent_execute_return(i, run) =>
                /\ tasks'[i].response.raised = FALSE
                /\ tasks'[i].response.actions = <<>>
                /\ tasks'[i].response.requires_human_input
                /\ tasks'[i].pc = "done"
                /\ tasks'[i].outcome = "human"
                /\ tasks'[i].effects = <<>>
                /\ commands' = commands]_vars
    /\ [](\A i \in TaskIds :
             tasks[i].outcome \notin {"error", "propagated"})
    /\ [](oe_result # "raised" /\ oe_errors = 0 /\ commands = <<>>)

C26_Witness ==
    \E i \in TaskIds :
        /\ tasks[i].response # Absent
        /\ tasks[i].response.message =
              <<"Error executing LLM agent", "ReadTimeout">>
        /\ tasks[i].outcome = "human"

-----------------------------------------------------------------------------
(* Properties of the parser and of perform_ai_action *)

\* the call of perform_ai_action has parsed the text of the inference
Parsed == ai_call.op = "perform_ai_action" /\ ai_call.parsed # Absent
\* the list of records of the array x
ListOf(x) == json_loads(x).value

TargetKeys ==
    UNION {{StepOf(k).target[p][1] : p \in 1..Len(StepOf(k).target)} :
           k \in StepTokens}

\* C29: in perform_ai_action the test that selects the field of the target is
\* true of every field name, so the argument of every keyword call is the
\* value of the first field of the target of its step, whatever the name of
\* that field, and None when the target has no field.
C29_FirstFieldOfTarget ==
    /\ \A k \in TargetKeys : target_selected(k)
    /\ ai_call.op = "perform_ai_action" =>
          \A q \in 1..Len(ai_call.calls) :
             LET call == ai_call.calls[q]
                 step == ai_call.suggestion[call.step]
             IN /\ step.action \in Keys(ai_keyword_map)
                /\ call.handler = Handler(ai_keyword_map, step.action)
                /\ call.arg = IF step.target = <<>> THEN None
                              ELSE step.target[1][2]

C29_Witness ==
    /\ ai_call.op = "perform_ai_action"
    /\ ai_call.pc = "done"
    /\ ai_call.suggestion = <<StepOf("B"), StepOf("C")>>
    /\ Len(ai_call.calls) = 2
    /\ ai_call.calls[1].arg = "2"
    /\ ai_call.calls[2].arg = None

-----------------------------------------------------------------------------
(* Properties of the Playwright driver *)

\* C30: when launch_app has returned on a driver that had no page, a page
\* exists and it shows the configured browserURL, whether launch_app was
\* called inside a running event loop or outside.
C30_LaunchAppNavigates ==
    (/\ pw # Absent
     /\ pw.last.op = "launch_app"
     /\ pw.last.path \in {"sync", "async"}
     /\ pw.last.result = "returned") =>
        /\ pw.driver # Absent
        /\ pw.driver.url = pw.browser_url

-----------------------------------------------------------------------------
(* Properties of concurrent pause requests *)

\* the positions of the pause_execution actions in the response of task i
PausePositions(i) ==
    {j \in 1..Len(Actions(tasks[i])) :
        ToolName(tasks[i], j) = "pause_execution"}
\* the PAUSE commands task i has published
PausesPublished(i) ==
    {p \in 1..Len(tasks[i].effects) :
        /\ tasks[i].effects[p].kind = "publish"
        /\ tasks[i].effects[p].what = "PAUSE"}
PauseCommands == {q \in 1..Len(commands) : commands[q].type = "PAUSE"}

\* the inference call of task i returned a pause_execution action, and the
\* session was registered when the task began to process its actions
PauseTurn(i) ==
    /\ i \in TaskIds
    /\ tasks[i].pc \in {"loop", "await", "done"}
    /\ tasks[i].outcome \in {"", "processed"}
    /\ PausePositions(i) # {}
BothPaused ==
    /\ tasks[1].pc = "done" /\ tasks[2].pc = "done"
    /\ Cardinality(PausesPublished(1)) = Cardinality(PausePositions(1))
    /\ Cardinality(PausesPublished(2)) = Cardinality(PausePositions(2))
    /\ Cardinality(PauseCommands) >=
          Cardinality(PausePositions(1)) + Cardinality(PausePositions(2))

-----------------------------------------------------------------------------
(* Properties of the page source *)

AssertAnyReturned ==
    /\ ps_call.op = "assert_elements"
    /\ ps_call.pc = "done"
    /\ ps_call.rule = "any"

\* C31: a call assert_elements(elements, rule="any") that has ended
\* returned True only if the page showed one of the listed elements during
\* the call, and when the page showed none of them it ended with
\* TimeoutError.
C31_AssertAnyNeedsElement ==
    AssertAnyReturned =>
        /\ ps_call.result = "True" => ps_call.present # {}
        /\ ps_call.present = {} => ps_call.result = "TimeoutError"

-----------------------------------------------------------------------------
(* Properties of the trigger protocol *)

\* the names in the list of a trigger, and how often a name is in it
Range(q) == {q[i] : i \in 1..Len(q)}
Occurrences(q, x) == Cardinality({i \in 1..Len(q) : q[i] = x})
KeyOf(e) == e.entity_type \o "_" \o e.status

\* every task of the event being handled runs an agent listed under the key
\* of that event
TasksMatchKey ==
    \A i \in TaskIds :
        /\ event # Absent
        /\ tasks[i].agent_name \in Range(agents_for(KeyOf(event)))

\* a name is added to the list of a trigger only by a registration whose
\* configuration names that trigger
ListedByRegistration ==
    \A t \in Triggers \cup {KeyOf(e) : e \in Events}, name \in AgentNames :
        Occurrences(Get(trigger_map', t, <<>>), name)
            > Occurrences(agents_for(t), name) =>
            /\ name \in DOMAIN configs'
            /\ configs'[name].enabled
            /\ configs'[name].trigger = t

\* an event whose key is the trigger of no registration starts no task and
\* leaves the command channel as it is
UnmatchedStartsNothing ==
    \A e \in Events :
        (on_event(e) /\ KeyOf(e) \notin DOMAIN trigger_map) =>
            /\ tasks' = <<>>
            /\ oe_pc' = "idle"
            /\ oe_result' = "no_agents"
            /\ commands' = commands

\* C32: on_event executes an agent only if the key entity_type_status of
\* the event is the trigger an agent of that name was registered under, and
\* an event whose key matches no registered trigger executes no agent and
\* publishes no command.
C32_TriggerKeyMatches ==
    /\ []TasksMatchKey
    /\ [][ListedByRegistration /\ UnmatchedStartsNothing]_vars

C32_Witness ==
    /\ oe_pc = "gather"
    /\ \E i \in TaskIds : tasks[i].pc = "exec"
    /\ KeyOf(event) = "Keyword_fail"
    /\ "Module_fail" \in DOMAIN trigger_map
    /\ \E name \in Range(trigger_map["Module_fail"]) :
          \A i \in TaskIds : tasks[i].agent_name # name

\* C33: no agent name is twice in the list of a trigger, and the tasks of one
\* event run agents of different names: each matched agent is executed at
\* most once for an event.
C33_NoNameTwiceInTriggerList ==
    /\ \A t \in DOMAIN trigger_map, name \in AgentNames :
          Occurrences(trigger_map[t], name) <= 1
    /\ \A i, j \in TaskIds :
          tasks[i].agent_name = tasks[j].agent_name => i = j

\* C34: configs and agents have the same keys, every name in the list of a
\* trigger is one of these keys, and a name is in the list of trigger t only
\* if the configuration stored under that name has trigger t.
C34_RegistryConsistent ==
    /\ DOMAIN configs = DOMAIN agents
    /\ \A t \in DOMAIN trigger_map :
          \A name \in Range(trigger_map[t]) :
              /\ name \in DOMAIN configs
              /\ name \in DOMAIN agents
              /\ configs[name].trigger = t

-----------------------------------------------------------------------------
(* Properties of session teardown and of the capabilities a turn can reach *)

\* the calls of capability handlers task t has made
Invocations(t) == {p \in 1..Len(t.effects) : t.effects[p].kind = "invoke"}

\* this step calls a capability handler in task i
Invokes(i) ==
    /\ i \in 1..Len(tasks)
    /\ i \in 1..Len(tasks')
    /\ Cardinality(Invocations(tasks'[i])) > Cardinality(Invocations(tasks[i]))

\* the handler called in the last invocation of task t
LastInvoked(t) ==
    t.effects[CHOOSE p \in Invocations(t) :
                 \A q \in Invocations(t) : q <= p].what

\* C35: a capability handler is called for the session of the event only
\* while that session is registered: once unregister_session(s) has
\* returned, no task calls a handler for s, whether it was in its loop or
\* awaiting a handler when the session was unregistered.
C35_NoHandlerAfterUnregister ==
    [][\A i \in 1..(MaxRegs + 1) :
          Invokes(i) => context.session_id \in DOMAIN session_tools]_vars

\* C36: no task calls a capability handler for an action whose tool_name
\* starts with "_": such an action is passed over like one that names no
\* capability.
C36_PrivateNeverDispatched ==
    \A i \in TaskIds :
        \A p \in Invocations(tasks[i]) :
            ~StartsWithUnderscore(ToolName(tasks[i], tasks[i].effects[p].idx))

\* the positions of a Tool list that carry a name
PositionsOf(tools, name) == {q \in 1..Len(tools) : tools[q].name = name}

\* C37: an action named pause_execution or resume_execution publishes its
\* command and calls no handler, also when the keyword map of the session
\* has an entry of that name, and the Tool list of a registered session
\* names every tool once.
C37_ReservedNamesTakePrecedence ==
    /\ \A i \in TaskIds :
          \A j \in 1..Len(Actions(tasks[i])) :
              (Passed(tasks[i], j) /\ Reserved(ToolName(tasks[i], j))) =>
                  /\ EntriesOfKind(tasks[i], j, "invoke") = {}
                  /\ Cardinality(EntriesOfKind(tasks[i], j, "publish")) = 1
    /\ \A s \in DOMAIN session_tools :
          \A q \in 1..Len(get_available_tools(s)) :
              PositionsOf(get_available_tools(s),
                          get_available_tools(s)[q].name) = {q}

\* the handlers of a keyword map
HandlersOf(km) == {km[q].handler : q \in 1..Len(km)}

\* C38: while an event of a registered session s is handled, every handler
\* a task calls and every handler in the tool set of an agent that runs for
\* the event is a handler of s: a handler registered for another session
\* only is not among them.
C38_CapabilitiesIsolatedPerSession ==
    (oe_pc = "gather" /\ context.session_id \in DOMAIN session_tools) =>
        LET own == HandlersOf(session_tools[context.session_id])
            foreign == UNION {HandlersOf(session_tools[s]) :
                                s \in DOMAIN session_tools
                                       \ {context.session_id}} \ own
        IN \A i \in TaskIds :
              /\ \A p \in Invocations(tasks[i]) :
                    tasks[i].effects[p].what \notin foreign
              /\ tasks[i].agent_name \in DOMAIN agents =>
                    \A n \in DOMAIN agents[tasks[i].agent_name].tools :
                        agents[tasks[i].agent_name].tools[n] \notin foreign

-----------------------------------------------------------------------------
(* Termination of on_event *)

\* the wait of on_event ends in this step
GatherReturns == oe_pc = "gather" /\ oe_pc' = "idle"

\* C39: when every awaited agent.execute and every called handler returns
\* or raises, an on_event call that has started its tasks completes, and it
\* completes only in a step in which every task of the event has finished
\* its turn.
C39_OnEventCompletes ==
    /\ (oe_pc = "gather") ~> (oe_pc = "idle")
    /\ [][GatherReturns => \A i \in 1..Len(tasks) : tasks[i].pc = "done"]_vars

\* one agent has not returned from execute, its sibling has had all its
\* actions dispatched, and on_event is still waiting
C39_Witness ==
    /\ oe_pc = "gather"
    /\ Len(tasks) = 2
    /\ tasks[1].pc = "exec"
    /\ tasks[2].pc = "done"
    /\ tasks[2].outcome = "processed"
    /\ Invocations(tasks[2]) # {}

-----------------------------------------------------------------------------
(* Properties of the Playwright driver lifecycle *)

\* C40: whenever launch_app has returned without raising, the driver has a
\* page, also after an earlier launch that failed part-way; and whenever
\* terminate has returned, driver, browser, playwright and sync_playwright
\* are all None, also when closing raised.
C40_DriverLifecycle ==
    pw # Absent =>
        /\ (pw.last.op = "launch_app" /\ pw.last.result = "returned") =>
              pw.driver # Absent
        /\ (pw.last.op = "terminate" /\ pw.last.result = "returned") =>
              /\ pw.driver = Absent
              /\ ~pw.browser
              /\ ~pw.playwright
              /\ ~pw.sync_playwright

=============================================================================
